---------------------------- MODULE Spec2Model ----------------------------
(***************************************************************************)
(* Model of the DXF contour reconstruction pipeline of                     *)
(* src/frontend/app.js: importWithCncContours and                          *)
(* buildShapesFromClosedLoops with the geometry helpers they call.         *)
(*                                                                         *)
(* Numbers.  The code computes in IEEE doubles.  The model computes in     *)
(* exact integers on a grid: a coordinate is an integer count of grid      *)
(* steps, and `unit' is the number of grid steps per 1.0 of the drawing    *)
(* (a state variable, fixed per document).  A vertex is <<x, y>>.  A       *)
(* derived point that need not lie on the grid (a centroid, a midpoint)    *)
(* is a rational triple <<xn, yn, d>> standing for (xn/d, yn/d), d > 0.    *)
(* Areas are kept doubled (the shoelace sum before the final * 0.5), so    *)
(* areaAbs below is 2 * |area| in grid steps squared.  Every tolerance of  *)
(* the code is kept and compared exactly: a test  v <= tol  on a value     *)
(* v = m / k  becomes  m <= floor(k * tol).                                *)
(***************************************************************************)
EXTENDS Integers, Sequences, FiniteSets, TLC

VARIABLES
    unit,         \* grid steps per 1.0 drawing unit
    pc,           \* position inside importWithCncContours / buildShapesFromClosedLoops
    entities,     \* the LINE / LWPOLYLINE entities of the document text (<<>> with preParsed)
    fromBackend,  \* parsedFromBackend: the document arrived as preParsed
    parsed,       \* <<[contours, width, height]>>; <<>> stands for null
    rawLineArcMode,
    closedLoops,  \* closedLoops of importWithCncContours
    declaredClosedLoops,
    allPoints,
    segments,
    openContours,
    fallbackOpenShapes,
    segmentLoops,
    forceHull,    \* forceHullFromTinyClosed
    loops,        \* the loop records of buildShapesFromClosedLoops
    childrenByParent,
    pseudoHoleSkipSet,
    guard,        \* pass counter of the pseudo-hole loop
    shapes,       \* closedShapes: [outer, holes, loopIdx, holeIdx]
    densePath,    \* TRUE when the dense-perforated fast path returned the shapes
    returned,     \* the value importWithCncContours returned; "pending" before
    run,          \* 1: the document, 2: the first run's output fed back as closed polylines
    firstShapes,  \* the shapes of the first run
    selectionPrimaryLoop,  \* localGroup.userData.selectionPrimaryLoop; <<>> when absent
    reattachedLoops,  \* history: the loops a pseudo-hole pass moved to their grandparent
    extractorRuns,    \* history: the loop-finding steps of lines 3005-3016 that were run
    cpuCores,     \* CPU_CORES: navigator.hardwareConcurrency (at least 1)
    batch,        \* the file-input handler: "idle", "running", "resolved"
    fileCount,    \* files.length of the batch
    nextIndex,    \* nextIndex of runWithConcurrency (from 0)
    workerItem,   \* per workerLoop: the index it awaits (from 1), 0 when it has returned
    tasks,        \* per file: [pc, invoked, tried, imported, reported]
    nextPartId,   \* the parts created so far, plus 1
    partsGroup,   \* partsGroup.children: the parts of the scene, in order
    selectedPart, \* selectedPart: a part, 0 for null
    pointerMoved, \* pointerMoved: the pointer went more than 3 px from where it went down
    dxfWorkerPool,  \* createDxfWorkerPool: [slots, queue, pending, nextId]; slots <<>> before
    promises,     \* per job id: [state, calls] of the promise runParse returned
    workers,      \* per slot, its Worker: [status, inbox, outbox]
    postLog,      \* history: the postMessage calls of dispatch(): [slot, id, unsettled]
    cacheStore,   \* the records of a cache's object store: [key, updatedAt, approxBytes]
    storeBefore,  \* history: the records before the trim
    trimmedBy     \* "parsed" or "mesh" after the trim of that cache; "none" before

vars == <<unit, pc, entities, fromBackend, parsed, rawLineArcMode, closedLoops,
          declaredClosedLoops, allPoints, segments, openContours, fallbackOpenShapes,
          segmentLoops, forceHull, loops, childrenByParent, pseudoHoleSkipSet, guard,
          shapes, densePath, returned, run, firstShapes, selectionPrimaryLoop,
          reattachedLoops, extractorRuns, cpuCores, batch, fileCount, nextIndex, workerItem, tasks, nextPartId,
          partsGroup, selectedPart, pointerMoved, dxfWorkerPool, promises,
          workers, postLog, cacheStore, storeBefore, trimmedBy>>

\* the variables of importWithCncContours and the variables of the page around it
importVars == <<unit, pc, entities, fromBackend, parsed, rawLineArcMode, closedLoops,
                declaredClosedLoops, allPoints, segments, openContours,
                fallbackOpenShapes, segmentLoops, forceHull, loops, childrenByParent,
                pseudoHoleSkipSet, guard, shapes, densePath, returned, run, firstShapes,
                selectionPrimaryLoop, reattachedLoops, extractorRuns>>

pageVars == <<cpuCores, batch, fileCount, nextIndex, workerItem, tasks, nextPartId,
              partsGroup, selectedPart, pointerMoved>>

\* the variables of the DXF worker pool
poolVars == <<dxfWorkerPool, promises, workers, postLog>>

\* the variables of the persistent caches
cacheVars == <<cacheStore, storeBefore, trimmedBy>>

-----------------------------------------------------------------------------
(* Integer helpers *)

Abs(n) == IF n < 0 THEN -n ELSE n

Min2(a, b) == IF a <= b THEN a ELSE b

Max2(a, b) == IF a >= b THEN a ELSE b

RECURSIVE Gcd(_, _)
Gcd(a, b) == IF b = 0 THEN Abs(a) ELSE Gcd(b, a % Abs(b))

\* Math.round(n / d) for d > 0: floor(n/d + 1/2).
Round(n, d) == (2 * n + d) \div (2 * d)

RECURSIVE IsqrtBetween(_, _, _)
\* the r in lo..hi with r * r <= n < (r + 1) * (r + 1), by bisection
IsqrtBetween(n, lo, hi) ==
    IF lo >= hi THEN lo
    ELSE LET mid == (lo + hi + 1) \div 2
         IN  IF mid * mid <= n THEN IsqrtBetween(n, mid, hi)
             ELSE IsqrtBetween(n, lo, mid - 1)

\* floor(sqrt(n)) for 0 <= n < 2^30
Isqrt(n) == IF n <= 0 THEN 0 ELSE IsqrtBetween(n, 1, 32767)

\* A reduced rational point <<xn, yn, d>> with d > 0.
Rat(xn, yn, d) ==
    LET s == IF d < 0 THEN -1 ELSE 1
        g == Gcd(Gcd(xn, yn), d)
    IN  <<(s * xn) \div g, (s * yn) \div g, (s * d) \div g>>

OfVertex(p) == <<p[1], p[2], 1>>

SeqToSet(s) == {s[i] : i \in 1..Len(s)}

Reverse(s) == [i \in 1..Len(s) |-> s[Len(s) + 1 - i]]

Indices(n) == [i \in 1..n |-> i]

RECURSIVE FlattenRange(_, _, _)
\* ss[lo] \o ... \o ss[hi], halving the range so that long lists stay shallow
FlattenRange(ss, lo, hi) ==
    IF lo > hi THEN <<>>
    ELSE IF lo = hi THEN ss[lo]
    ELSE LET mid == (lo + hi) \div 2
         IN  FlattenRange(ss, lo, mid) \o FlattenRange(ss, mid + 1, hi)

Flatten(ss) == FlattenRange(ss, 1, Len(ss))

RECURSIVE SumRange(_, _, _)
\* f[lo] + ... + f[hi]
SumRange(f, lo, hi) ==
    IF lo > hi THEN 0
    ELSE IF lo = hi THEN f[lo]
    ELSE LET mid == (lo + hi) \div 2
         IN  SumRange(f, lo, mid) + SumRange(f, mid + 1, hi)

\* the elements of a finite set of integers, ascending
RECURSIVE SetToSortedSeq(_)
SetToSortedSeq(S) ==
    IF S = {} THEN <<>>
    ELSE LET m == CHOOSE x \in S : \A y \in S : x <= y
         IN  <<m>> \o SetToSortedSeq(S \ {m})

-----------------------------------------------------------------------------
(* Distances and tolerances *)

\* squared distance of two vertices, in grid steps squared
Dist2(a, b) == (a[1] - b[1]) * (a[1] - b[1]) + (a[2] - b[2]) * (a[2] - b[2])

\* a.distanceTo(b) <= tn/td  (tn/td in drawing units), u grid steps per unit
WithinTol(a, b, tn, td, u) ==
    IF tn * u < td THEN Dist2(a, b) = 0
    ELSE Dist2(a, b) <= (tn * tn * u * u) \div (td * td)

\* a.distanceTo(b) <= qn/qd grid steps
WithinSteps(a, b, qn, qd) ==
    IF qn < qd THEN Dist2(a, b) = 0
    ELSE Dist2(a, b) <= (qn * qn) \div (qd * qd)

-----------------------------------------------------------------------------
(* Point lists: buildClosedPointList, appendSegmentsFromPointList *)

RECURSIVE DropConsecutive(_, _)
\* the `cleaned' loop of buildClosedPointList: keep p unless prev.distanceTo(p) <= 1e-9
DropConsecutive(pts, acc) ==
    IF Len(pts) = 0 THEN acc
    ELSE IF Len(acc) > 0 /\ Dist2(acc[Len(acc)], Head(pts)) = 0
         THEN DropConsecutive(Tail(pts), acc)
         ELSE DropConsecutive(Tail(pts), Append(acc, Head(pts)))

\* buildClosedPointList(pts): <<>> stands for null
buildClosedPointList(pts) ==
    LET Close(cleaned) ==
            IF Len(cleaned) < 3 THEN <<>>
            ELSE IF Dist2(cleaned[1], cleaned[Len(cleaned)]) > 0
                 THEN Append(cleaned, cleaned[1])
                 ELSE cleaned
    IN  Close(DropConsecutive(pts, <<>>))

\* shapeInfo.outline.slice(0, -1) of buildShapeInfoFromPoints(pts); <<>> when shapeInfo is null
OutlineOpen(pts) ==
    LET Open(c) == IF Len(c) = 0 THEN <<>> ELSE SubSeq(c, 1, Len(c) - 1)
    IN  Open(buildClosedPointList(pts))

RECURSIVE SegsFrom(_, _)
SegsFrom(pts, i) ==
    IF i > Len(pts) THEN <<>>
    ELSE IF Dist2(pts[i - 1], pts[i]) = 0 THEN SegsFrom(pts, i + 1)
    ELSE <<[a |-> pts[i - 1], b |-> pts[i]]>> \o SegsFrom(pts, i + 1)

\* the segments appendSegmentsFromPointList(pts, out) appends to out
appendSegmentsFromPointList(pts) ==
    IF Len(pts) < 2 THEN <<>> ELSE SegsFrom(pts, 2)

-----------------------------------------------------------------------------
(* Polygon measures *)

Cross2(a, b) == a[1] * b[2] - b[1] * a[2]

NextIdx(i, n) == IF i = n THEN 1 ELSE i + 1

RECURSIVE ShoelaceFrom(_, _)
ShoelaceFrom(pts, i) ==
    IF i > Len(pts) THEN 0
    ELSE Cross2(pts[i], pts[NextIdx(i, Len(pts))]) + ShoelaceFrom(pts, i + 1)

\* polygonAreaSigned(openPts), doubled: the shoelace sum before `* 0.5'
polygonAreaSigned(openPts) ==
    IF Len(openPts) < 3 THEN 0 ELSE ShoelaceFrom(openPts, 1)

RECURSIVE BoundsRange(_, _, _)
BoundsRange(pts, lo, hi) ==
    IF lo = hi
    THEN [minX |-> pts[lo][1], minY |-> pts[lo][2], maxX |-> pts[lo][1], maxY |-> pts[lo][2]]
    ELSE LET mid == (lo + hi) \div 2
             l == BoundsRange(pts, lo, mid)
             r == BoundsRange(pts, mid + 1, hi)
         IN  [minX |-> Min2(l.minX, r.minX), minY |-> Min2(l.minY, r.minY),
              maxX |-> Max2(l.maxX, r.maxX), maxY |-> Max2(l.maxY, r.maxY)]

\* the running min/max over a non-empty point list
BoundsOf(pts) == BoundsRange(pts, 1, Len(pts))

\* Products beyond the machine word: a natural number as its digits in base 1000,
\* lowest first (<<>> is zero)
BigBase == 1000

RECURSIVE BigCarry(_, _, _, _)
BigCarry(n, k, i, carry) ==
    IF i > Len(n)
    THEN (IF carry = 0 THEN <<>> ELSE <<carry % BigBase>> \o BigCarry(n, k, i, carry \div BigBase))
    ELSE LET v == n[i] * k + carry
         IN  <<v % BigBase>> \o BigCarry(n, k, i + 1, v \div BigBase)

\* n * k for a factor 0 <= k < 2000000
BigTimes(n, k) == IF k = 0 THEN <<>> ELSE BigCarry(n, k, 1, 0)

RECURSIVE BigProduct(_)
BigProduct(factors) ==
    IF Len(factors) = 0 THEN <<1>>
    ELSE BigTimes(BigProduct(Tail(factors)), Head(factors))

BigGreater(m, n) ==
    IF Len(m) # Len(n) THEN Len(m) > Len(n)
    ELSE \E i \in 1..Len(m) : m[i] > n[i] /\ \A j \in (i + 1)..Len(m) : m[j] = n[j]

\* eps of the segment test (1e-8) as 1 / SegEpsDen
SegEpsDen == 100000000

\* largest integer m with m / (d * u * u) <= 1e-8
SegEps(d, u) == (d * u * u) \div SegEpsDen

\* d * k + r > e for a denominator d > 0, without forming the product
ScaledGreater(d, k, r, e) ==
    LET q == k + (r - e) \div d
    IN  q > 0 \/ (q = 0 /\ (r - e) % d > 0)

\* pointOnSegment(point, a, b) for a rational point (px / d, py / d).  With
\* px = qx * d + rx and py = qy * d + ry every quantity of the test is d * k + r for
\* small k and r: d times the code's cross, dot and dot - lenSq.
pointOnSegment(point, a, b, u) ==
    LET d    == point[3]
        abx  == b[1] - a[1]
        aby  == b[2] - a[2]
        ux   == point[1] \div d - a[1]
        uy   == point[2] \div d - a[2]
        rx   == point[1] % d
        ry   == point[2] % d
        crossK == abx * uy - aby * ux
        crossR == abx * ry - aby * rx
        dotK == ux * abx + uy * aby
        dotR == rx * abx + ry * aby
        lenSq == abx * abx + aby * aby
        eps  == SegEps(d, u)
    IN  IF ScaledGreater(d, crossK, crossR, eps) \/ ScaledGreater(d, -crossK, -crossR, eps)
        THEN FALSE
        ELSE IF ScaledGreater(d, -dotK, -dotR, eps) THEN FALSE
        ELSE IF ScaledGreater(d, dotK - lenSq, dotR, eps) THEN FALSE
        ELSE TRUE

RECURSIVE OnSomeEdge(_, _, _, _)
OnSomeEdge(point, closedPts, i, u) ==
    IF i >= Len(closedPts) THEN FALSE
    ELSE pointOnSegment(point, closedPts[i], closedPts[i + 1], u)
         \/ OnSomeEdge(point, closedPts, i + 1, u)

\* the ray test of one edge (pi, pj) of pointInPolygonStrict:
\* (pi.y > y) # (pj.y > y) and x < (pj.x - pi.x) * (y - pi.y) / (pj.y - pi.y) + pi.x, with
\* the division multiplied out and both sides split as in pointOnSegment
RayCrosses(point, pi, pj) ==
    LET d  == point[3]
        qy == point[2] \div d
        dx == pj[1] - pi[1]
        dy == pj[2] - pi[2]
        ux == point[1] \div d - pi[1]
        uy == qy - pi[2]
        k  == dx * uy - ux * dy
        r  == dx * (point[2] % d) - (point[1] % d) * dy
    IN  /\ (pi[2] > qy) # (pj[2] > qy)
        /\ IF dy > 0 THEN ScaledGreater(d, k, r, 0) ELSE ScaledGreater(d, -k, -r, 0)

RECURSIVE CrossingsFrom(_, _, _, _)
\* number of toggles of `inside' for i = from .. count, with j the previous index
CrossingsFrom(point, closedPts, i, count) ==
    IF i > count THEN 0
    ELSE (IF RayCrosses(point, closedPts[i], closedPts[IF i = 1 THEN count ELSE i - 1])
          THEN 1 ELSE 0)
         + CrossingsFrom(point, closedPts, i + 1, count)

\* a plausible slip: the on-edge test dropped (an on-edge point may count as inside)
pointInPolygonLoose(point, closedPts, u) ==
    IF Len(closedPts) < 4 THEN FALSE
    ELSE ~OnSomeEdge(point, closedPts, 1, u) =>
         CrossingsFrom(point, closedPts, 1, Len(closedPts) - 1) % 2 = 1

\* pointInPolygonStrict(point, closedPts)
pointInPolygonStrict(point, closedPts, u) ==
    IF Len(closedPts) < 4 THEN FALSE
    ELSE IF OnSomeEdge(point, closedPts, 1, u) THEN FALSE
    ELSE CrossingsFrom(point, closedPts, 1, Len(closedPts) - 1) % 2 = 1

\* bboxContainsPoint(bbox, point, eps) with eps = en/ed drawing units; each comparison
\* c * d <= n is made as c <= floor(n / d)
bboxContainsPoint(bbox, point, en, ed, u) ==
    LET d == point[3]
        e == (d * u * en) \div ed
    IN  /\ bbox.minX <= (point[1] + e) \div d
        /\ bbox.maxX >= -((e - point[1]) \div d)
        /\ bbox.minY <= (point[2] + e) \div d
        /\ bbox.maxY >= -((e - point[2]) \div d)

RECURSIVE CentroidAcc(_, _)
\* <<areaAcc, cxAcc, cyAcc>> of polygonCentroid
CentroidAcc(pts, i) ==
    IF i > Len(pts) THEN <<0, 0, 0>>
    ELSE LET a == pts[i]
             b == pts[NextIdx(i, Len(pts))]
             c == Cross2(a, b)
             r == CentroidAcc(pts, i + 1)
         IN  <<r[1] + c, r[2] + (a[1] + b[1]) * c, r[3] + (a[2] + b[2]) * c>>

\* polygonCentroid(openPts): <<>> stands for null.  area = areaAcc / 2, so
\* cxAcc / (6 * area) = cxAcc / (3 * areaAcc); |area| <= 1e-9 only when areaAcc = 0.
polygonCentroid(openPts, u) ==
    IF Len(openPts) < 3 THEN <<>>
    ELSE LET acc == CentroidAcc(openPts, 1)
         IN  IF Abs(acc[1]) <= (2 * u * u) \div 1000000000 THEN <<>>
             ELSE Rat(acc[2], acc[3], 3 * acc[1])

RECURSIVE SumCoord(_, _, _)
SumCoord(pts, i, k) == IF i > Len(pts) THEN 0 ELSE pts[i][k] + SumCoord(pts, i + 1, k)

\* the candidate list of pickSampleInside, in the order it is tried
SampleCandidates(openPts, u) ==
    LET centroid == polygonCentroid(openPts, u)
    IN  (IF centroid # <<>> THEN <<centroid>> ELSE <<>>)
        \o (IF Len(openPts) >= 1
            THEN <<Rat(SumCoord(openPts, 1, 1), SumCoord(openPts, 1, 2), Len(openPts))>>
            ELSE <<>>)
        \o (IF Len(openPts) >= 2
            THEN <<Rat(openPts[1][1] + openPts[2][1], openPts[1][2] + openPts[2][2], 2)>>
            ELSE <<>>)
        \o (IF Len(openPts) >= 1 THEN <<OfVertex(openPts[1])>> ELSE <<>>)

RECURSIVE FirstInside(_, _, _, _)
FirstInside(cands, i, closedPts, u) ==
    IF i > Len(cands) THEN (IF Len(cands) > 0 THEN cands[Len(cands)] ELSE <<0, 0, 1>>)
    ELSE IF pointInPolygonStrict(cands[i], closedPts, u) THEN cands[i]
    ELSE FirstInside(cands, i + 1, closedPts, u)

\* a plausible slip: the first candidate is returned untested
pickSampleFirst(openPts, closedPts, u) ==
    SampleCandidates(openPts, u)[1]

\* pickSampleInside(openPts, closedPts)
pickSampleInside(openPts, closedPts, u) ==
    FirstInside(SampleCandidates(openPts, u), 1, closedPts, u)

\* a plausible slip: the loop is returned as given, never reversed
orientLoopAsGiven(points, clockwise) ==
    IF Len(points) < 3 THEN <<>> ELSE points

\* orientLoop(points, clockwise)
orientLoop(points, clockwise) ==
    IF Len(points) < 3 THEN <<>>
    ELSE LET isClockwise == polygonAreaSigned(points) < 0
         IN  IF (clockwise /\ ~isClockwise) \/ (~clockwise /\ isClockwise)
             THEN Reverse(points) ELSE points

-----------------------------------------------------------------------------
(* convexHullFromPoints *)

PtLess(a, b) == a[1] < b[1] \/ (a[1] = b[1] /\ a[2] < b[2])

\* pts sorted by (x, y): Array.prototype.sort with (a.x - b.x) || (a.y - b.y), stable
SortPts(pts) ==
    LET n == Len(pts)
        rank == [i \in 1..n |->
                   1 + Cardinality({j \in 1..n : PtLess(pts[j], pts[i])
                                                  \/ (pts[j] = pts[i] /\ j < i)})]
    IN  [k \in 1..n |-> pts[CHOOSE i \in 1..n : rank[i] = k]]

HullCross(o, a, b) == (a[1] - o[1]) * (b[2] - o[2]) - (a[2] - o[2]) * (b[1] - o[1])

RECURSIVE PopWhile(_, _)
PopWhile(chain, p) ==
    IF Len(chain) >= 2 /\ HullCross(chain[Len(chain) - 1], chain[Len(chain)], p) <= 0
    THEN PopWhile(SubSeq(chain, 1, Len(chain) - 1), p)
    ELSE chain

RECURSIVE HalfHull(_, _)
\* lines 2104-2108 (and 2110-2115): one pass of the monotone chain over sorted points
HalfHull(pts, chain) ==
    IF Len(pts) = 0 THEN chain
    ELSE HalfHull(Tail(pts), Append(PopWhile(chain, Head(pts)), Head(pts)))

RECURSIVE HalfHullRange(_, _, _)
\* the pass over pts[lo..hi]; a long list is scanned as the chains of its two halves,
\* which hold every point the pass over the whole list keeps, in the same order
HalfHullRange(pts, lo, hi) ==
    IF hi - lo < 8 THEN HalfHull(SubSeq(pts, lo, hi), <<>>)
    ELSE LET Halves(mid) ==
                 HalfHull(HalfHullRange(pts, lo, mid) \o HalfHullRange(pts, mid + 1, hi),
                          <<>>)
         IN  Halves((lo + hi) \div 2)

\* convexHullFromPoints(points): monotone chain, <<>> when fewer than 3 hull points
convexHullFromPoints(points) ==
    IF Len(points) < 3 THEN <<>>
    ELSE LET Checked(hull) == IF Len(hull) >= 3 THEN hull ELSE <<>>
             Joined(lower, upper) ==
                 Checked(SubSeq(lower, 1, Len(lower) - 1)
                         \o SubSeq(upper, 1, Len(upper) - 1))
             Hull(pts, rev) ==
                 Joined(HalfHullRange(pts, 1, Len(pts)), HalfHullRange(rev, 1, Len(rev)))
             Sorted(pts) == Hull(pts, Reverse(pts))
         IN  Sorted(SortPts(points))

-----------------------------------------------------------------------------
(* pointKey, extractClosedLoopsFromSegments *)

\* pointKey(point, eps) with eps = en/ed drawing units: the pair of
\* Math.round(x / eps), Math.round(y / eps); x = point[1] / u.
pointKey(point, en, ed, u) ==
    <<Round(point[1] * ed, u * en), Round(point[2] * ed, u * en)>>

\* the `edges' array: segments with a # b and aKey # bKey, in order
EdgesOf(segs, en, ed, u) ==
    LET keyed == [i \in 1..Len(segs) |->
                    [a |-> segs[i].a, b |-> segs[i].b,
                     aKey |-> pointKey(segs[i].a, en, ed, u),
                     bKey |-> pointKey(segs[i].b, en, ed, u)]]
    IN  SelectSeq(keyed, LAMBDA e : Dist2(e.a, e.b) > 0 /\ e.aKey # e.bKey)

\* adjacency.get(key) filtered by !used: edge indices ascending
UnusedAt(edges, used, key) ==
    SelectSeq(Indices(Len(edges)),
              LAMBDA i : ~used[i] /\ (edges[i].aKey = key \/ edges[i].bKey = key))

OtherKey(e, key) == IF e.aKey = key THEN e.bKey ELSE e.aKey

OtherPoint(e, key) == IF e.aKey = key THEN e.b ELSE e.a

RECURSIVE WalkLoop(_, _, _, _, _, _, _)
\* the inner `for guard' loop; w = [used, path, prevKey, currentKey, closed]
WalkLoop(edges, startKey, used, path, prevKey, currentKey, g) ==
    IF currentKey = startKey THEN [used |-> used, path |-> path, closed |-> TRUE]
    ELSE IF g >= Len(edges) + 2 THEN [used |-> used, path |-> path, closed |-> FALSE]
    ELSE LET Step(nextEdgeIndex) ==
                 WalkLoop(edges, startKey,
                          [used EXCEPT ![nextEdgeIndex] = TRUE],
                          Append(path, OtherPoint(edges[nextEdgeIndex], currentKey)),
                          currentKey, OtherKey(edges[nextEdgeIndex], currentKey), g + 1)
             Prefer(candidates, preferred) ==
                 Step(IF Len(candidates) > 1 /\ Len(preferred) > 0
                      THEN preferred[1] ELSE candidates[1])
             Choose(candidates) ==
                 IF Len(candidates) = 0
                 THEN [used |-> used, path |-> path, closed |-> FALSE]
                 ELSE Prefer(candidates,
                             SelectSeq(candidates,
                                       LAMBDA i : OtherKey(edges[i], currentKey) # prevKey))
         IN  Choose(UnusedAt(edges, used, currentKey))

RECURSIVE ExtractFrom(_, _, _)
\* the outer `for i' loop over the edges
ExtractFrom(edges, i, used) ==
    IF i > Len(edges) THEN <<>>
    ELSE IF used[i] THEN ExtractFrom(edges, i + 1, used)
    ELSE LET Emit(w) ==
                 (IF w.closed /\ Len(w.path) >= 3 THEN <<w.path>> ELSE <<>>)
                 \o ExtractFrom(edges, i + 1, w.used)
         IN  Emit(WalkLoop(edges, edges[i].aKey, [used EXCEPT ![i] = TRUE],
                           <<edges[i].a, edges[i].b>>, edges[i].aKey, edges[i].bKey, 0))

\* extractClosedLoopsFromSegments(segments, eps), eps = en/ed
extractClosedLoopsFromSegments(segs, en, ed, u) ==
    LET Walk(edges) == ExtractFrom(edges, 1, [i \in 1..Len(edges) |-> FALSE])
    IN  Walk(EdgesOf(segs, en, ed, u))

-----------------------------------------------------------------------------
(* compactLoopPoints, stitchClosedLoopsFromOpenContours *)

\* A tolerance in grid steps is a pair <<qn, qd>> standing for qn / qd, kept reduced.
TolOf(n, d) == LET g == Gcd(n, d) IN <<n \div g, d \div g>>

TolLeq(a, b) == a[1] * b[2] <= b[1] * a[2]

TolMax(a, b) == IF TolLeq(a, b) THEN b ELSE a

TolMin(a, b) == IF TolLeq(a, b) THEN a ELSE b

Within(a, b, tol) == WithinSteps(a, b, tol[1], tol[2])

RECURSIVE CompactFrom(_, _, _)
CompactFrom(pts, tol, out) ==
    IF Len(pts) = 0 THEN out
    ELSE IF Len(out) = 0 \/ ~Within(out[Len(out)], Head(pts), tol)
         THEN CompactFrom(Tail(pts), tol, Append(out, Head(pts)))
         ELSE CompactFrom(Tail(pts), tol, out)

\* compactLoopPoints(points, tol) / compactLoopPointsArray(points, tol)
compactLoopPoints(points, tol) ==
    LET Trim(out) ==
            IF Len(out) > 1 /\ Within(out[1], out[Len(out)], tol)
            THEN SubSeq(out, 1, Len(out) - 1) ELSE out
    IN  Trim(CompactFrom(points, tol, <<>>))

\* the four ways of attaching pool item i to the chain, in the order the code lists them
AttachOptions(chain, pts, i) ==
    LET start == chain[1]
        end   == chain[Len(chain)]
        a     == pts[1]
        b     == pts[Len(pts)]
    IN  << [idx |-> i, d |-> Dist2(end, a),   prepend |-> FALSE, reverse |-> FALSE],
           [idx |-> i, d |-> Dist2(end, b),   prepend |-> FALSE, reverse |-> TRUE],
           [idx |-> i, d |-> Dist2(start, b), prepend |-> TRUE,  reverse |-> FALSE],
           [idx |-> i, d |-> Dist2(start, a), prepend |-> TRUE,  reverse |-> TRUE] >>

\* d <= tol for a squared distance d
D2Within(d, tol) ==
    IF tol[1] < tol[2] THEN d = 0 ELSE d <= (tol[1] * tol[1]) \div (tol[2] * tol[2])

\* `best' of the scan over the pool: the first option of least distance within tol; <<>> if none
BestAttach(chain, pool, used, tol) ==
    LET Least(ok) ==
            IF Len(ok) = 0 THEN <<>>
            ELSE <<SelectSeq(ok, LAMBDA c : \A k \in 1..Len(ok) : c.d <= ok[k].d)[1]>>
    IN  Least(SelectSeq(Flatten([i \in 1..Len(pool) |->
                                   IF used[i] \/ Len(pool[i]) < 2 THEN <<>>
                                   ELSE AttachOptions(chain, pool[i], i)]),
                        LAMBDA c : D2Within(c.d, tol)))

RECURSIVE GrowChain(_, _, _, _)
\* the `while (true)' loop of one base contour: [chain, used]
GrowChain(chain, pool, used, tol) ==
    IF Len(chain) >= 3 /\ Within(chain[1], chain[Len(chain)], tol)
    THEN [chain |-> chain, used |-> used]
    ELSE LET Attach(pick, pts) ==
                 GrowChain(IF pick.prepend
                           THEN (IF Within(pts[Len(pts)], chain[1], tol)
                                 THEN SubSeq(pts, 1, Len(pts) - 1) ELSE pts) \o chain
                           ELSE chain \o (IF Within(chain[Len(chain)], pts[1], tol)
                                          THEN Tail(pts) ELSE pts),
                           pool, [used EXCEPT ![pick.idx] = TRUE], tol)
             Take(best) ==
                 IF Len(best) = 0 THEN [chain |-> chain, used |-> used]
                 ELSE Attach(best[1], IF best[1].reverse THEN Reverse(pool[best[1].idx])
                                      ELSE pool[best[1].idx])
         IN  Take(BestAttach(chain, pool, used, tol))

RECURSIVE StitchFrom(_, _, _, _, _)
StitchFrom(pool, baseIdx, used, tol, dedupTol) ==
    IF baseIdx > Len(pool) THEN <<>>
    ELSE IF used[baseIdx] THEN StitchFrom(pool, baseIdx + 1, used, tol, dedupTol)
    ELSE LET Emit(loop, usedNow) ==
                 (IF Len(loop) >= 3 THEN <<loop>> ELSE <<>>)
                 \o StitchFrom(pool, baseIdx + 1, usedNow, tol, dedupTol)
             Grown(g) == Emit(compactLoopPoints(g.chain, dedupTol), g.used)
         IN  Grown(GrowChain(pool[baseIdx], pool, [used EXCEPT ![baseIdx] = TRUE], tol))

\* dedupTol = max(1e-5, min(0.08, tol * 0.05)) in grid steps
StitchDedupTol(tol, u) ==
    TolMax(TolOf(u, 100000), TolMin(TolOf(8 * u, 100), TolOf(5 * tol[1], 100 * tol[2])))

\* stitchClosedLoopsFromOpenContours(openContours, tol), tol in grid steps
stitchClosedLoopsFromOpenContours(contours, tol, u) ==
    LET Stitch(pool, dedupTol) ==
            StitchFrom(pool, 1, [i \in 1..Len(pool) |-> FALSE], tol, dedupTol)
        Compact(dedupTol) ==
            Stitch(SelectSeq([i \in 1..Len(contours) |->
                                compactLoopPoints(contours[i], dedupTol)],
                             LAMBDA pts : Len(pts) >= 2), dedupTol)
    IN  Compact(StitchDedupTol(tol, u))

\* a plausible slip: the stitch tolerance taken as the fixed upper clamp 0.6
StitchTolFixed(w, h, u) ==
    TolOf(6 * u, 10)

\* stitchTol = max(0.05, min(0.6, minSide * 0.005)), minSide = max(1.0, min(width, height)),
\* in grid steps: width w and height h are in grid steps
StitchTol(w, h, u) ==
    LET minSide == Max2(u, Min2(w, h))
    IN  TolMax(TolOf(5 * u, 100), TolMin(TolOf(6 * u, 10), TolOf(5 * minSide, 1000)))

-----------------------------------------------------------------------------
(* buildShapesFromClosedLoops: splitCompoundLoopCandidates, makeLoopRecord *)

\* sorted[k - 1] of the ascending sort of a non-empty sequence of integers (k from 1)
KthSmallest(vals, k) ==
    CHOOSE v \in SeqToSet(vals) :
        /\ Cardinality({i \in 1..Len(vals) : vals[i] < v}) < k
        /\ Cardinality({i \in 1..Len(vals) : vals[i] <= v}) >= k

\* a plausible slip: no de-duplication, every item is kept
BestByCellKeepAll(areas, keys) ==
    Indices(Len(keys))

\* A Map filled by `if (!prev || area > prev.area) set(key, item)': the indices of the
\* kept items in the Map's order (the order in which the keys were first set).
BestByCell(areas, keys) ==
    LET n      == Len(keys)
        firsts == SelectSeq(Indices(n), LAMBDA i : \A j \in 1..(i - 1) : keys[j] # keys[i])
        winner == [k \in 1..Len(firsts) |->
                     LET same == {j \in firsts[k]..n : keys[j] = keys[firsts[k]]}
                     IN  CHOOSE j \in same :
                            \A l \in same : areas[j] > areas[l] \/ (areas[j] = areas[l] /\ j <= l)]
    IN  winner

\* idxs reordered by `sort((a, b) => b.area - a.area)' (stable)
SortByAreaDesc(areas, idxs) ==
    LET n    == Len(idxs)
        rank == [k \in 1..n |->
                   1 + Cardinality({l \in 1..n : areas[idxs[l]] > areas[idxs[k]]
                                       \/ (areas[idxs[l]] = areas[idxs[k]] /\ l < k)})]
    IN  [r \in 1..n |-> idxs[CHOOSE k \in 1..n : rank[k] = r]]

\* hasRepeatKey: some key of openPts seen before at a non-adjacent index
HasRepeatKey(openPts, u) ==
    \E i \in 1..Len(openPts) : \E j \in 1..(i - 2) :
        pointKey(openPts[j], 1, 10000, u) = pointKey(openPts[i], 1, 10000, u)

\* a plausible slip: only the test areaRatio < 0.42 is made
SuspiciousSmallOnly(openPts, u) ==
    LET b == BoundsOf(openPts)
    IN  100 * Abs(polygonAreaSigned(openPts)) < 84 * (b.maxX - b.minX) * (b.maxY - b.minY)

\* suspicious = hasRepeatKey || areaRatio > 1.08 || areaRatio < 0.42, with
\* areaRatio = areaAbs / max(EPS, bbox w * h); a2 is the doubled area
Suspicious(openPts, u) ==
    LET Ratio(a2, bb) ==
            \/ HasRepeatKey(openPts, u)
            \/ bb = 0
            \/ 100 * a2 > 216 * bb
            \/ 100 * a2 < 84 * bb
        Box(b) == Ratio(Abs(polygonAreaSigned(openPts)),
                        (b.maxX - b.minX) * (b.maxY - b.minY))
    IN  Box(BoundsOf(openPts))

\* the sub-loops found in the loop's own segments: at 1e-4, then at 5e-4 if fewer than 2
SubLoopsOf(openPts, u) ==
    LET Retry(segs, first) ==
            IF Len(first) < 2 THEN extractClosedLoopsFromSegments(segs, 5, 10000, u)
            ELSE first
        First(segs) == Retry(segs, extractClosedLoopsFromSegments(segs, 1, 10000, u))
    IN  First(appendSegmentsFromPointList(Append(openPts, openPts[1])))

\* the `candidates' of splitCompoundLoopCandidates: loopOpen of every usable sub-loop
SplitCandidates(subLoops) ==
    LET opened == [i \in 1..Len(subLoops) |-> OutlineOpen(subLoops[i])]
    IN  SelectSeq(opened, LAMBDA l : Len(l) >= 3 /\ Abs(polygonAreaSigned(l)) > 0)

\* quant = max(1e-4, min(0.5, minDimMedian * 0.15)) in grid steps
SplitQuant(cands, u) ==
    LET minDims == [i \in 1..Len(cands) |->
                      LET b == BoundsOf(cands[i])
                      IN  Min2(b.maxX - b.minX, b.maxY - b.minY)]
        median  == KthSmallest(minDims, (Len(cands) \div 2) + 1)
    IN  TolMax(TolOf(u, 10000), TolMin(TolOf(u, 2), TolOf(15 * median, 100)))

\* the key of a bbox centre: Math.round(cx / quant), Math.round(cy / quant)
CenterKey(b, quant) ==
    <<Round((b.minX + b.maxX) * quant[2], 2 * quant[1]),
      Round((b.minY + b.maxY) * quant[2], 2 * quant[1])>>

\* splitCompoundLoopCandidates(openPts)
splitCompoundLoopCandidates(openPts, u) ==
    IF Len(openPts) < 4 \/ ~Suspicious(openPts, u) THEN <<openPts>>
    ELSE LET Pick(cands, kept) == [k \in 1..Len(kept) |-> cands[kept[k]]]
             BestByCenter(cands, quant, areas) ==
                 Pick(cands,
                      SortByAreaDesc(areas,
                          BestByCell(areas, [i \in 1..Len(cands) |->
                                               CenterKey(BoundsOf(cands[i]), quant)])))
             Split(subLoops, cands) ==
                 IF Len(subLoops) < 2 \/ Len(cands) = 0 THEN <<openPts>>
                 ELSE BestByCenter(cands, SplitQuant(cands, u),
                          [i \in 1..Len(cands) |-> Abs(polygonAreaSigned(cands[i]))])
             Candidates(subLoops) == Split(subLoops, SplitCandidates(subLoops))
         IN  Candidates(SubLoopsOf(openPts, u))

\* makeLoopRecord(openPts, bboxHint): <<rec>>, or <<>> for null.  areaAbs is doubled;
\* areaAbs > 1e-8 is areaAbs > 0 on the grid.
makeLoopRecord(openPts, bboxHint, u) ==
    IF Len(openPts) < 3 \/ Abs(polygonAreaSigned(openPts)) = 0 THEN <<>>
    ELSE LET Record(closedPts) ==
                 IF Len(closedPts) < 4 THEN <<>>
                 ELSE << [openPts   |-> openPts,
                          closedPts |-> closedPts,
                          areaAbs   |-> Abs(polygonAreaSigned(openPts)),
                          bbox      |-> IF bboxHint # <<>> THEN bboxHint[1]
                                        ELSE BoundsOf(openPts),
                          sample    |-> pickSampleInside(openPts, closedPts, u),
                          parent    |-> -1,
                          depth     |-> -1] >>
         IN  Record(buildClosedPointList(openPts))

\* the records of one entry of closedLoops (the body of the loop at lines 2417-2426)
RecordsOfLoop(loop, u) ==
    LET Records(cands) == Flatten([k \in 1..Len(cands) |-> makeLoopRecord(cands[k], <<>>, u)])
        Split(closedPts) ==
            IF Len(closedPts) < 4 THEN <<>>
            ELSE Records(splitCompoundLoopCandidates(
                             SubSeq(closedPts, 1, Len(closedPts) - 1), u))
    IN  Split(buildClosedPointList(loop))

\* `loops' after the record-building loop
BuildRecords(cl, u) == Flatten([i \in 1..Len(cl) |-> RecordsOfLoop(cl[i], u)])

-----------------------------------------------------------------------------
(* buildShapesFromClosedLoops: source bounding box, hull injection, dense fast path *)

\* hasSourceBBox with the source bounds; area2 is the doubled sourceBBoxArea, so that it
\* compares with the doubled areaAbs.  (When w * h = 0 the code uses 1e-8, which every
\* positive area exceeds exactly as it exceeds 0.)
SourceBBox(pts) ==
    IF Len(pts) < 3
    THEN [has |-> FALSE, box |-> [minX |-> 0, minY |-> 0, maxX |-> 0, maxY |-> 0], area2 |-> 0]
    ELSE LET b == BoundsOf(pts)
         IN  [has |-> TRUE, box |-> b, area2 |-> 2 * (b.maxX - b.minX) * (b.maxY - b.minY)]

ResetLinks(rec) == [rec EXCEPT !.parent = -1, !.depth = -1]

\* the hull record appended by the three hull injections: <<rec>> or <<>>
HullRecord(pts, src, u) == makeLoopRecord(convexHullFromPoints(pts), <<src.box>>, u)

\* the forceHullFromTinyClosed block (lines 2452-2474): the new `loops'
ForceHullLoops(ls, pts, src, u) ==
    LET Pick(normalized) == IF Len(normalized) >= 1 THEN normalized ELSE ls
        WithHull(tiny) ==
            Pick([i \in 1..Len(tiny) |-> ResetLinks(tiny[i])] \o HullRecord(pts, src, u))
    IN  WithHull(SelectSeq(ls, LAMBDA x : 10000 * x.areaAbs <= 35 * src.area2))

\* the first index of the largest areaAbs
FirstMaxIdx(ls) ==
    CHOOSE i \in 1..Len(ls) :
        /\ \A j \in 1..Len(ls) : ls[j].areaAbs <= ls[i].areaAbs
        /\ \A j \in 1..(i - 1) : ls[j].areaAbs < ls[i].areaAbs

\* loop.sample is inside `outer' as lines 2497-2498 / 2548-2549 test it
InsideOuter(outer, loop, u) ==
    /\ bboxContainsPoint(outer.bbox, loop.sample, 1, 10000, u)
    /\ pointInPolygonStrict(loop.sample, outer.closedPts, u)

hasStrongContainerContour(ls, src, u) ==
    IF Len(ls) < 2 THEN FALSE
    ELSE LET outerIdx    == FirstMaxIdx(ls)
             outer       == ls[outerIdx]
             others      == {i \in 1..Len(ls) : i # outerIdx}
             secondArea  == CHOOSE a \in {ls[i].areaAbs : i \in others} :
                                \A i \in others : ls[i].areaAbs <= a
             insideCount == Cardinality({i \in others : InsideOuter(outer, ls[i], u)})
             requiredInside == Max2(1, Min2(3, Len(ls) - 1))
         IN  /\ insideCount >= requiredInside
             /\ outer.areaAbs >= 6 * secondArea
             /\ 1000 * outer.areaAbs >= 2 * src.area2

shouldAddHull(ls, src, u) ==
    LET maxLoopArea    == ls[FirstMaxIdx(ls)].areaAbs
        hasLikelyOuter == \E i \in 1..Len(ls) : 100 * ls[i].areaAbs > 5 * src.area2
    IN  /\ ~hasLikelyOuter
        /\ (~(100 * maxLoopArea > src.area2) \/ ~hasStrongContainerContour(ls, src, u))

\* the allowHullFallback block (lines 2476-2524): the new `loops'
HullFallbackLoops(ls, pts, src, u) ==
    IF Len(pts) >= 3 /\ shouldAddHull(ls, src, u) THEN ls \o HullRecord(pts, src, u) ELSE ls

\* the smallest fast-path loop count (line 2528)
DenseMinLoops == 220

\* the smallest number of candidates (line 2552) and of de-duplicated holes (line 2577)
DenseMinCandidates == 120

DenseMinHoles == 90

\* a plausible slip: the quantum is three times the first loop's smaller side, the
\* factor 0.03 written as 3 and the clamp left out
DenseQuantUnscaled(cands, u) ==
    TolOf(3 * Min2(cands[1].bbox.maxX - cands[1].bbox.minX,
                   cands[1].bbox.maxY - cands[1].bbox.minY), 1)

\* quant = max(1e-4, min(0.25, medianDim * 0.03)) in grid steps
DenseQuant(cands, u) ==
    LET minDims == [i \in 1..Len(cands) |->
                      Min2(cands[i].bbox.maxX - cands[i].bbox.minX,
                           cands[i].bbox.maxY - cands[i].bbox.minY)]
        median  == KthSmallest(minDims, (Len(cands) \div 2) + 1)
    IN  TolMax(TolOf(u, 10000), TolMin(TolOf(25 * u, 100), TolOf(3 * median, 100)))

\* the record indices the fast path keeps as holes
DenseHoles(ls, candIdx, u) ==
    LET cands == [k \in 1..Len(candIdx) |-> ls[candIdx[k]]]
        quant == DenseQuant(cands, u)
        areas == [k \in 1..Len(cands) |-> cands[k].areaAbs]
        keys  == [k \in 1..Len(cands) |-> CenterKey(cands[k].bbox, quant)]
        kept  == BestByCell(areas, keys)
    IN  [k \in 1..Len(kept) |-> candIdx[kept[k]]]

\* one emitted shape: the outer counter-clockwise, the holes clockwise
MakeShape(ls, outerIdx, holeIdx) ==
    LET holes == [k \in 1..Len(holeIdx) |-> orientLoop(ls[holeIdx[k]].openPts, TRUE)]
        keep  == SelectSeq(Indices(Len(holeIdx)), LAMBDA k : Len(holes[k]) >= 3)
    IN  [outer   |-> orientLoop(ls[outerIdx].openPts, FALSE),
         holes   |-> [k \in 1..Len(keep) |-> holes[keep[k]]],
         loopIdx |-> outerIdx,
         holeIdx |-> [k \in 1..Len(keep) |-> holeIdx[keep[k]]]]

\* tryBuildDensePerforatedPanelShape(): <<shape>>, or <<>> for null
tryBuildDensePerforatedPanelShape(ls, src, u) ==
    IF ~src.has \/ Len(ls) < DenseMinLoops THEN <<>>
    ELSE LET Shape(outerIdx, dedupHoles) ==
                 IF Len(dedupHoles) < DenseMinHoles THEN <<>>
                 ELSE <<MakeShape(ls, outerIdx, dedupHoles)>>
             Dedup(outerIdx, candIdx) ==
                 IF Len(candIdx) < DenseMinCandidates THEN <<>>
                 ELSE Shape(outerIdx, DenseHoles(ls, candIdx, u))
             Panel(outerIdx) ==
                 IF 100 * ls[outerIdx].areaAbs < 30 * src.area2 THEN <<>>
                 ELSE Dedup(outerIdx,
                            SelectSeq(Indices(Len(ls)),
                                LAMBDA i : /\ i # outerIdx
                                           /\ 100 * ls[i].areaAbs <= 2 * src.area2
                                           /\ InsideOuter(ls[outerIdx], ls[i], u)))
         IN  Panel(FirstMaxIdx(ls))

-----------------------------------------------------------------------------
(* computeLoopHierarchy, buildDepthAndChildrenFromParents *)

\* a plausible slip: the containment test of the parent admits a sample on the boundary
CanBeParentLoose(ls, j, i, u) ==
    /\ i # j
    /\ ls[j].areaAbs > ls[i].areaAbs
    /\ bboxContainsPoint(ls[j].bbox, ls[i].sample, 1, 1000000, u)
    /\ pointInPolygonLoose(ls[i].sample, ls[j].closedPts, u)

\* candidate j may be the parent of loop i (lines 2623-2627); areas differ by whole
\* grid quanta, so  a > b + 1e-8  is  a > b
CanBeParent(ls, j, i, u) ==
    /\ i # j
    /\ ls[j].areaAbs > ls[i].areaAbs
    /\ bboxContainsPoint(ls[j].bbox, ls[i].sample, 1, 1000000, u)
    /\ pointInPolygonStrict(ls[i].sample, ls[j].closedPts, u)

\* a plausible slip: the comparison of line 2628 turned round, the largest candidate wins
BestParentLargest(ls, i, u) ==
    LET Most(cand) ==
            IF cand = {} THEN -1
            ELSE CHOOSE j \in cand :
                     \A k \in cand : ls[j].areaAbs > ls[k].areaAbs
                                     \/ (ls[j].areaAbs = ls[k].areaAbs /\ j <= k)
    IN  Most({j \in 1..Len(ls) : CanBeParent(ls, j, i, u)})

\* bestParent of loop i: the first candidate of least area, -1 if none
BestParent(ls, i, u) ==
    LET Least(cand) ==
            IF cand = {} THEN -1
            ELSE CHOOSE j \in cand :
                     \A k \in cand : ls[j].areaAbs < ls[k].areaAbs
                                     \/ (ls[j].areaAbs = ls[k].areaAbs /\ j <= k)
    IN  Least({j \in 1..Len(ls) : CanBeParent(ls, j, i, u)})

RECURSIVE resolveDepth(_, _)
resolveDepth(ls, idx) ==
    IF ls[idx].parent < 0 THEN 0 ELSE resolveDepth(ls, ls[idx].parent) + 1

\* a plausible slip: the depths of the previous resolution kept
WithDepthsKept(ls) == ls

\* the depth pass of buildDepthAndChildrenFromParents
WithDepths(ls) == [i \in 1..Len(ls) |-> [ls[i] EXCEPT !.depth = resolveDepth(ls, i)]]

\* the Map returned by buildDepthAndChildrenFromParents: children of every index, ascending
ChildrenMap(ls) ==
    [p \in 1..Len(ls) |-> SelectSeq(Indices(Len(ls)), LAMBDA i : ls[i].parent = p)]

\* `loops' after computeLoopHierarchy()
computeLoopHierarchy(ls, u) ==
    WithDepths([i \in 1..Len(ls) |-> [ls[i] EXCEPT !.parent = BestParent(ls, i, u)]])

-----------------------------------------------------------------------------
(* the fragmented-sheet replacement (lines 2638-2695) *)

MinInset(b, box) ==
    Min2(Min2(b.minX - box.minX, box.maxX - b.maxX), Min2(b.minY - box.minY, box.maxY - b.maxY))

\* borderTol = max(4.0, min(w, h) * 0.06) in grid steps
BorderTol(w, h, u) == TolMax(TolOf(4 * u, 1), TolOf(6 * Min2(w, h), 100))

\* v <= tol for an integer v of grid steps
StepsLeq(v, tol) == v * tol[2] <= tol[1]

looksFragmentedSheet(ls, src, u) ==
    LET rootIdx   == {i \in 1..Len(ls) : ls[i].parent < 0}
        borderTol == BorderTol(src.box.maxX - src.box.minX, src.box.maxY - src.box.minY, u)
        borderTouchCount ==
            Cardinality({i \in rootIdx : StepsLeq(MinInset(ls[i].bbox, src.box), borderTol)})
        tinyCount == Cardinality({i \in 1..Len(ls) : 1000 * ls[i].areaAbs <= 2 * src.area2})
    IN  /\ Cardinality(rootIdx) >= 3
        /\ borderTouchCount >= 3
        /\ tinyCount >= 6
        /\ \A i \in rootIdx : 100 * ls[i].areaAbs < 45 * src.area2

\* `loops' after the fragmented-sheet block
FragmentedSheetLoops(ls, pts, src, u) ==
    IF src.has /\ Len(pts) >= 3 /\ looksFragmentedSheet(ls, src, u)
    THEN LET Rebuilt(normalized) ==
                 IF Len(normalized) >= 2 THEN computeLoopHierarchy(normalized, u) ELSE ls
             WithHull(tiny) ==
                 Rebuilt([i \in 1..Len(tiny) |-> ResetLinks(tiny[i])]
                         \o HullRecord(pts, src, u))
         IN  WithHull(SelectSeq(ls, LAMBDA x : 1000 * x.areaAbs <= 2 * src.area2))
    ELSE ls

-----------------------------------------------------------------------------
(* pseudo-hole containers (lines 2697-2780) *)

RECURSIVE countDescendants(_, _)
countDescendants(children, idx) ==
    Len(children[idx])
    + SumRange([k \in 1..Len(children[idx]) |-> countDescendants(children, children[idx][k])],
               1, Len(children[idx]))

\* a plausible slip: no container is ever treated as a pseudo-hole
shouldSkipAsPseudoHoleNever(ls, children, parentIdx, childIdx, u) ==
    FALSE

\* shouldSkipAsPseudoHole(parentIdx, childIdx), lines 2708-2745
shouldSkipAsPseudoHole(ls, children, parentIdx, childIdx, u) ==
    LET parentLoop == ls[parentIdx]
        childLoop  == ls[childIdx]
        parentArea == parentLoop.areaAbs
        childArea  == childLoop.areaAbs
        siblings   == SelectSeq(children[parentIdx], LAMBDA idx : idx # childIdx)
        tinySiblingCount ==
            Len(SelectSeq(siblings, LAMBDA idx : 100 * ls[idx].areaAbs < 2 * parentArea))
        parentW  == parentLoop.bbox.maxX - parentLoop.bbox.minX
        parentH  == parentLoop.bbox.maxY - parentLoop.bbox.minY
        minInset == MinInset(childLoop.bbox, parentLoop.bbox)
        nearBorderTol == BorderTol(parentW, parentH, u)
    IN  IF ~(100 * childArea > 70 * parentArea) THEN FALSE
        ELSE IF 100 * childArea > 68 * parentArea /\ tinySiblingCount >= 6 THEN TRUE
        ELSE IF ~(10000 * minInset >= -u) THEN FALSE
        ELSE IF ~StepsLeq(minInset, nearBorderTol) THEN FALSE
        ELSE IF countDescendants(children, childIdx) >= 6 THEN TRUE
        ELSE IF tinySiblingCount >= 8 THEN TRUE
        ELSE 100 * childArea > 82 * parentArea /\ tinySiblingCount >= 4

\* the children newly skipped by one pass of normalizePseudoHoleContainers.  Within a
\* pass the tests read only depth, childrenByParent and areaAbs, none of which the pass
\* changes before its end, so the skipped children can be collected at once.
NewlySkipped(ls, children, skip, u) ==
    {c \in 1..Len(ls) :
        /\ ls[c].parent >= 1
        /\ c \notin skip
        /\ ls[ls[c].parent].depth % 2 = 0
        /\ ls[c].depth % 2 = 1
        /\ shouldSkipAsPseudoHole(ls, children, ls[c].parent, c, u)}

\* the loops whose parent one pass rewrites to their grandparent (line 2765): the
\* children of the newly skipped loops
GrandChildrenOf(ls, newSkip) ==
    {g \in 1..Len(ls) : ls[g].parent >= 1 /\ ls[g].parent \in newSkip}

\* a plausible slip: the children of a skipped container are detached with it
ReattachedToRoot(ls, children, newSkip) ==
    [i \in 1..Len(ls) |->
        IF i \in newSkip /\ Len(children[i]) > 0 THEN [ls[i] EXCEPT !.parent = -1]
        ELSE IF ls[i].parent >= 1 /\ ls[i].parent \in newSkip
             THEN [ls[i] EXCEPT !.parent = -1]
             ELSE ls[i]]

\* a plausible slip: the skipped container is detached and its children stay on it
ReattachedContainerOnly(ls, children, newSkip) ==
    [i \in 1..Len(ls) |->
        IF i \in newSkip /\ Len(children[i]) > 0 THEN [ls[i] EXCEPT !.parent = -1]
        ELSE ls[i]]

\* `loops' after the parent rewrites of one pass, before depths are rebuilt
Reattached(ls, children, newSkip) ==
    [i \in 1..Len(ls) |->
        IF i \in newSkip /\ Len(children[i]) > 0 THEN [ls[i] EXCEPT !.parent = -1]
        ELSE IF ls[i].parent >= 1 /\ ls[i].parent \in newSkip
             THEN [ls[i] EXCEPT !.parent = ls[ls[i].parent].parent]
             ELSE ls[i]]

\* the pass limit of the loop at line 2778
MaxPseudoHolePasses == 8

-----------------------------------------------------------------------------
(* shape assembly (lines 2782-2842) and the artifact filter (lines 2844-2947) *)

shouldSkipNestedIsland(ls, idx, src, u) ==
    LET loop == ls[idx]
    IN  IF loop.depth < 2 \/ loop.depth % 2 # 0 THEN FALSE
        ELSE IF ~src.has \/ src.area2 = 0 THEN FALSE
        ELSE IF ~(loop.parent >= 1) THEN FALSE
        ELSE LET parent   == ls[loop.parent]
                 loopArea == loop.areaAbs
                 parentArea == parent.areaAbs
                 dx2 == (loop.bbox.maxX + loop.bbox.minX) - (parent.bbox.maxX + parent.bbox.minX)
                 dy2 == (loop.bbox.maxY + loop.bbox.minY) - (parent.bbox.maxY + parent.bbox.minY)
                 parentW == parent.bbox.maxX - parent.bbox.minX
                 parentH == parent.bbox.maxY - parent.bbox.minY
                 centerTol == TolMax(TolOf(6 * u, 10), TolOf(22 * Min2(parentW, parentH), 100))
             IN  /\ parent.depth % 2 = 1
                 /\ 100 * loopArea > 20 * parentArea
                 /\ 100 * loopArea < 98 * parentArea
                 /\ 100 * loopArea <= src.area2
                 /\ 100 * parentArea <= 2 * src.area2
                 /\ ~((dx2 * dx2 + dy2 * dy2) * centerTol[2] * centerTol[2]
                        > 4 * centerTol[1] * centerTol[1])

\* a plausible slip: the skip set is not consulted for the holes
HoleIdxOfSkipped(ls, children, skip, i) ==
    SelectSeq(children[i], LAMBDA c : ls[c].depth % 2 = 1)

\* the holes of the shape of loop i: its children that are not skipped and of odd depth
HoleIdxOf(ls, children, skip, i) ==
    SelectSeq(children[i], LAMBDA c : c \notin skip /\ ls[c].depth % 2 = 1)

\* a plausible slip: the shapes built from the odd-depth loops
AssembleShapesOddDepth(ls, children, skip, src, u) ==
    LET Shapes(outers) ==
            [k \in 1..Len(outers) |->
                MakeShape(ls, outers[k], HoleIdxOf(ls, children, skip, outers[k]))]
    IN  Shapes(SelectSeq(Indices(Len(ls)),
                         LAMBDA i : i \notin skip /\ ls[i].depth % 2 = 1))

\* `shapes' after the assembly loop
AssembleShapes(ls, children, skip, src, u) ==
    LET Shapes(outers) ==
            [k \in 1..Len(outers) |->
                MakeShape(ls, outers[k], HoleIdxOf(ls, children, skip, outers[k]))]
    IN  Shapes(SelectSeq(Indices(Len(ls)),
                         LAMBDA i : /\ i \notin skip
                                    /\ ls[i].depth % 2 = 0
                                    /\ ~shouldSkipNestedIsland(ls, i, src, u)))

bboxArea2D(b) == Max2(0, b.maxX - b.minX) * Max2(0, b.maxY - b.minY)

bboxIntersectionArea2D(a, b) ==
    LET minX == Max2(a.minX, b.minX)
        minY == Max2(a.minY, b.minY)
        maxX == Min2(a.maxX, b.maxX)
        maxY == Min2(a.maxY, b.maxY)
    IN  IF ~(maxX > minX) \/ ~(maxY > minY) THEN 0 ELSE (maxX - minX) * (maxY - minY)

\* the smallest hole counts of the artifact filter (lines 2875 and 2934)
ArtifactMinHoles == 80

ArtifactStrongHoles == 160

\* densityRatio < pct / 100, with densityRatio = (mh / ma) / (dh / da)
DensityBelow(mh, ma, dh, da, pct) == 100 * mh * da < pct * ma * dh

looksArtifactOverlay(ls, sh, dom, u) ==
    LET m    == ls[sh.loopIdx]
        d    == ls[dom.loopIdx]
        mh   == Len(sh.holes)
        self == bboxArea2D(m.bbox)
    IN  /\ pointInPolygonStrict(m.sample, d.closedPts, u)
        /\ 100 * m.areaAbs >= 4 * d.areaAbs
        /\ 100 * m.areaAbs <= 98 * d.areaAbs
        /\ (mh <= 2 \/ DensityBelow(mh, m.areaAbs, Len(dom.holes), d.areaAbs, 35))
        /\ \/ 100 * m.areaAbs >= 16 * d.areaAbs
           \/ (self > 0 /\ 100 * bboxIntersectionArea2D(m.bbox, d.bbox) >= 45 * self)
           \/ mh <= 1

\* the shapes buildShapesFromClosedLoops returns from the assembled ones
ArtifactFilter(ls, shs, src, u) ==
    IF ~(Len(shs) > 1 /\ src.has) THEN shs
    ELSE LET metaArea == [k \in 1..Len(shs) |-> [areaAbs |-> ls[shs[k].loopIdx].areaAbs]]
             domIdx   == FirstMaxIdx(metaArea)
             dom      == shs[domIdx]
             d        == ls[dom.loopIdx]
             dh       == Len(dom.holes)
         IN  IF ~(dh >= ArtifactMinHoles /\ 100 * d.areaAbs >= 35 * src.area2) THEN shs
             ELSE LET Strong(keep, secondary) ==
                          LET allSecondaryInsideDominant ==
                                  \A k \in secondary :
                                      pointInPolygonStrict(ls[shs[k].loopIdx].sample,
                                                           d.closedPts, u)
                              hasLargeLowDensityOverlay ==
                                  \E k \in secondary :
                                      /\ 100 * ls[shs[k].loopIdx].areaAbs >= 10 * d.areaAbs
                                      /\ DensityBelow(Len(shs[k].holes),
                                                      ls[shs[k].loopIdx].areaAbs,
                                                      dh, d.areaAbs, 45)
                          IN  IF allSecondaryInsideDominant /\ hasLargeLowDensityOverlay
                                 /\ dh >= ArtifactStrongHoles
                              THEN <<dom>>
                              ELSE [k \in 1..Len(keep) |-> shs[keep[k]]]
                      Kept(keep) == Strong(keep, {k \in SeqToSet(keep) : k # domIdx})
                  IN  Kept(SelectSeq(Indices(Len(shs)),
                                     LAMBDA k : k = domIdx
                                                \/ ~looksArtifactOverlay(ls, shs[k], dom, u)))

-----------------------------------------------------------------------------
(* parseDxfAsciiCnc: the entity loop, cleanImportedContoursCnc, the normalizers *)

\* the contour the entity loop pushes for one entity: <<contour>> or <<>>.
\* LINE: its two end points, open.  LWPOLYLINE (no bulges): the vertices, then the
\* closing vertex when closed, which is popped again when it meets the first.
EntityContour(e) ==
    IF e.type = "LINE" THEN <<[points |-> e.pts, closed |-> FALSE]>>
    ELSE IF Len(e.pts) < 2 THEN <<>>
    ELSE LET pts == IF e.closed THEN Append(e.pts, e.pts[1]) ELSE e.pts
         IN  <<[points |-> IF e.closed /\ Len(pts) > 1 /\ Dist2(pts[1], pts[Len(pts)]) = 0
                           THEN SubSeq(pts, 1, Len(pts) - 1) ELSE pts,
                closed |-> e.closed]>>

EntityContours(es) == Flatten([i \in 1..Len(es) |-> EntityContour(es[i])])

RECURSIVE LengthFrom(_, _)
LengthFrom(points, i) ==
    IF i > Len(points) THEN 0
    ELSE Isqrt(Dist2(points[i - 1], points[i])) + LengthFrom(points, i + 1)

\* contourPolylineLengthArray(points, closed) in grid steps, rounded down per segment:
\* exact for axis-parallel segments
contourPolylineLengthArray(points, closed) ==
    IF Len(points) < 2 THEN 0
    ELSE LengthFrom(points, 2)
         + (IF closed /\ Len(points) > 2 THEN Isqrt(Dist2(points[Len(points)], points[1])) ELSE 0)

\* the first loop of cleanImportedContoursCnc for one contour: <<contour>> or <<>>.
\* Two grid points are more than 1e-5 apart exactly when they differ, and a contour
\* with two different points is longer than 0.10 (a grid step is at least 1/8).
CleanOne(c) ==
    LET Keep(pts) ==
            IF Len(pts) < (IF c.closed THEN 3 ELSE 2) THEN <<>>
            ELSE IF contourPolylineLengthArray(pts, c.closed) = 0 THEN <<>>
            ELSE <<[points |-> pts, closed |-> c.closed]>>
        Cut(dedup) ==
            Keep(IF c.closed /\ Len(dedup) > 2 /\ Dist2(dedup[1], dedup[Len(dedup)]) = 0
                 THEN SubSeq(dedup, 1, Len(dedup) - 1) ELSE dedup)
    IN  Cut(DropConsecutive(c.points, <<>>))

\* the bounds of all points of a non-empty contour list
ContoursBounds(cs) == BoundsOf(Flatten([i \in 1..Len(cs) |-> cs[i].points]))

\* !(maxX > minX + EPS && maxY > minY + EPS)
FlatBounds(b) == ~(b.maxX > b.minX /\ b.maxY > b.minY)

\* stitchJoin = max(0.03, min(0.45, minSide * 0.0018)) in grid steps
StitchJoin(b, u) ==
    LET minSide == Max2(u, Min2(b.maxX - b.minX, b.maxY - b.minY))
    IN  TolMax(TolOf(3 * u, 100), TolMin(TolOf(45 * u, 100), TolOf(18 * minSide, 10000)))

\* stitchClose = max(stitchJoin * 1.35, 0.05)
StitchClose(join, u) == TolMax(TolOf(135 * join[1], 100 * join[2]), TolOf(5 * u, 100))

\* dedupTol = max(1e-5, min(joinTol * 0.35, 0.08))
ContinuityDedupTol(join, u) ==
    TolMax(TolOf(u, 100000), TolMin(TolOf(35 * join[1], 100 * join[2]), TolOf(8 * u, 100)))

\* the first loop of stitchContoursForContinuity for one contour:
\* [keep, closed, points]; an open one goes to the pool
ContinuityOne(c, dedupTol, closeTol) ==
    LET One(pts, closed, cut) ==
            [keep   |-> Len(pts) >= 2 /\ (closed => Len(cut) >= 3),
             closed |-> closed,
             points |-> cut]
        Cut(pts, closed) ==
            One(pts, closed,
                IF closed /\ Len(pts) > 2 /\ Within(pts[1], pts[Len(pts)], closeTol)
                THEN SubSeq(pts, 1, Len(pts) - 1) ELSE pts)
        Closed(pts) ==
            Cut(pts, c.closed \/ (Len(pts) >= 3 /\ Within(pts[1], pts[Len(pts)], closeTol)))
    IN  Closed(compactLoopPoints(c.points, dedupTol))

\* a plausible slip: every option attaches at the start of the chain
JoinOptionsAtStart(chain, pts, i) ==
    LET cStart == chain[1]
        cEnd   == chain[Len(chain)]
        pStart == pts[1]
        pEnd   == pts[Len(pts)]
    IN  << [idx |-> i, d |-> Dist2(cEnd, pStart),   attachEnd |-> FALSE, reverse |-> FALSE],
           [idx |-> i, d |-> Dist2(cEnd, pEnd),     attachEnd |-> FALSE, reverse |-> TRUE],
           [idx |-> i, d |-> Dist2(cStart, pEnd),   attachEnd |-> FALSE, reverse |-> FALSE],
           [idx |-> i, d |-> Dist2(cStart, pStart), attachEnd |-> FALSE, reverse |-> TRUE] >>

\* the four ways of attaching pool item i to the chain (lines 1408-1413)
JoinOptions(chain, pts, i) ==
    LET cStart == chain[1]
        cEnd   == chain[Len(chain)]
        pStart == pts[1]
        pEnd   == pts[Len(pts)]
    IN  << [idx |-> i, d |-> Dist2(cEnd, pStart),   attachEnd |-> TRUE,  reverse |-> FALSE],
           [idx |-> i, d |-> Dist2(cEnd, pEnd),     attachEnd |-> TRUE,  reverse |-> TRUE],
           [idx |-> i, d |-> Dist2(cStart, pEnd),   attachEnd |-> FALSE, reverse |-> FALSE],
           [idx |-> i, d |-> Dist2(cStart, pStart), attachEnd |-> FALSE, reverse |-> TRUE] >>

\* the sequence s without its i-th element (Array.prototype.splice(i, 1))
RemoveAt(s, i) == SubSeq(s, 1, i - 1) \o SubSeq(s, i + 1, Len(s))

RECURSIVE GrowJoined(_, _, _)
\* the `while (grew)' loop: [chain, pool]
GrowJoined(chain, pool, joinTol) ==
    LET Attach(best, seg) ==
            GrowJoined(IF best.attachEnd
                       THEN chain \o (IF Within(chain[Len(chain)], seg[1], joinTol)
                                      THEN Tail(seg) ELSE seg)
                       ELSE (IF Within(seg[Len(seg)], chain[1], joinTol)
                             THEN SubSeq(seg, 1, Len(seg) - 1) ELSE seg) \o chain,
                       RemoveAt(pool, best.idx), joinTol)
        Take(best) ==
            Attach(best, IF best.reverse THEN Reverse(pool[best.idx]) ELSE pool[best.idx])
        Least(ok) ==
            IF Len(ok) = 0 THEN [chain |-> chain, pool |-> pool]
            ELSE Take(SelectSeq(ok, LAMBDA c : \A k \in 1..Len(ok) : c.d <= ok[k].d)[1])
    IN  Least(SelectSeq(Flatten([i \in 1..Len(pool) |->
                                   IF Len(pool[i]) < 2 THEN <<>>
                                   ELSE JoinOptions(chain, pool[i], i)]),
                        LAMBDA c : D2Within(c.d, joinTol)))

RECURSIVE JoinPool(_, _, _)
\* the `while (openPool.length > 0)' loop: the contours it pushes to `out'
JoinPool(pool, joinTol, closeTol) ==
    IF Len(pool) = 0 THEN <<>>
    ELSE LET Push(chain, closed, rest) ==
                 (IF Len(chain) >= (IF closed THEN 3 ELSE 2)
                  THEN <<[points |-> chain, closed |-> closed]>> ELSE <<>>)
                 \o JoinPool(rest, joinTol, closeTol)
             Close(g, closed) ==
                 Push(IF closed THEN SubSeq(g.chain, 1, Len(g.chain) - 1) ELSE g.chain,
                      closed, g.pool)
             Grown(g) ==
                 Close(g, Len(g.chain) >= 3
                          /\ Within(g.chain[1], g.chain[Len(g.chain)], closeTol))
         IN  Grown(GrowJoined(pool[Len(pool)], SubSeq(pool, 1, Len(pool) - 1), joinTol))

\* stitchContoursForContinuity(inputContours, joinTol, closeTol)
stitchContoursForContinuity(cs, joinTol, closeTol, u) ==
    LET Out(out, openPool) ==
            [i \in 1..Len(out) |-> [points |-> out[i].points, closed |-> TRUE]]
            \o JoinPool([i \in 1..Len(openPool) |-> openPool[i].points], joinTol, closeTol)
        Sorted(kept) ==
            Out(SelectSeq(kept, LAMBDA o : o.closed), SelectSeq(kept, LAMBDA o : ~o.closed))
        Each(dedupTol) ==
            Sorted(SelectSeq([i \in 1..Len(cs) |-> ContinuityOne(cs[i], dedupTol, closeTol)],
                             LAMBDA o : o.keep))
    IN  Each(ContinuityDedupTol(joinTol, u))

\* bboxesNearArray(a, b, gap), gap in grid steps
bboxesNearArray(a, b, gap) ==
    ~(\/ ~StepsLeq(b.minX - a.maxX, gap)
      \/ ~StepsLeq(a.minX - b.maxX, gap)
      \/ ~StepsLeq(b.minY - a.maxY, gap)
      \/ ~StepsLeq(a.minY - b.maxY, gap))

\* joinGap = max(0.5, min(20.0, mMinSide * 0.05)) in grid steps
JoinGap(b, u) ==
    LET mMinSide == Max2(u, Min2(b.maxX - b.minX, b.maxY - b.minY))
    IN  TolMax(TolOf(5 * u, 10), TolMin(TolOf(20 * u, 1), TolOf(5 * mMinSide, 100)))

RECURSIVE GroupWalk(_, _, _, _, _)
\* the `while (stack.length)' loop of one group: [idxs, used]
GroupWalk(mBounds, stack, idxs, used, gap) ==
    IF Len(stack) = 0 THEN [idxs |-> idxs, used |-> used]
    ELSE LET Push(idx, found) ==
                 GroupWalk(mBounds, SubSeq(stack, 1, Len(stack) - 1) \o found,
                           Append(idxs, idx),
                           [j \in 1..Len(mBounds) |-> used[j] \/ j \in SeqToSet(found)], gap)
             Pop(idx) ==
                 Push(idx, SelectSeq(Indices(Len(mBounds)),
                                LAMBDA j : /\ ~used[j]
                                           /\ bboxesNearArray(mBounds[idx], mBounds[j], gap)))
         IN  Pop(stack[Len(stack)])

RECURSIVE GroupsFrom(_, _, _, _)
\* the index lists of the groups, in the order they are found
GroupsFrom(mBounds, i, used, gap) ==
    IF i > Len(mBounds) THEN <<>>
    ELSE IF used[i] THEN GroupsFrom(mBounds, i + 1, used, gap)
    ELSE LET Group(g) == <<g.idxs>> \o GroupsFrom(mBounds, i + 1, g.used, gap)
         IN  Group(GroupWalk(mBounds, <<i>>, <<>>, [used EXCEPT ![i] = TRUE], gap))

\* one group: its total length and its area max(EPS, w * h) as a fraction of a grid
\* step squared, the factors of its numerator and of its denominator (EPS = 1e-6)
GroupOf(merged, idxs, u) ==
    LET b == ContoursBounds([k \in 1..Len(idxs) |-> merged[idxs[k]]])
        w == b.maxX - b.minX
        h == b.maxY - b.minY
    IN  [idxs     |-> idxs,
         totalLen |-> SumRange([k \in 1..Len(idxs) |->
                         contourPolylineLengthArray(merged[idxs[k]].points,
                                                    merged[idxs[k]].closed)],
                               1, Len(idxs)),
         areaN    |-> IF w * h > 0 THEN <<w, h>> ELSE <<u, u>>,
         areaD    |-> IF w * h > 0 THEN <<>> ELSE <<1000, 1000>>]

\* g.score > h.score * (num / den), with score = totalLen * sqrt(area): compared squared
ScoreGreater(g, h, num, den) ==
    BigGreater(BigProduct(<<g.totalLen, g.totalLen, den, den>> \o g.areaN \o h.areaD),
               BigProduct(<<h.totalLen, h.totalLen, num, num>> \o h.areaN \o g.areaD))

\* g.area > h.area * (num / den)
AreaGreater(g, h, num, den) ==
    BigGreater(BigProduct(<<den>> \o g.areaN \o h.areaD),
               BigProduct(<<num>> \o h.areaN \o g.areaD))

\* the groups in the order of `sort((a, b) => b.score - a.score)' (stable)
SortGroups(gs) ==
    LET n    == Len(gs)
        rank == [k \in 1..n |->
                   1 + Cardinality({l \in 1..n : ScoreGreater(gs[l], gs[k], 1, 1)
                                       \/ (~ScoreGreater(gs[k], gs[l], 1, 1) /\ l < k)})]
    IN  [r \in 1..n |-> gs[CHOOSE k \in 1..n : rank[k] = r]]

\* keepOnlyMain (lines 1517-1520); b is the bounding box of all merged contours
keepOnlyMain(main, alt, b) ==
    LET all == [areaN |-> <<b.maxX - b.minX, b.maxY - b.minY>>, areaD |-> <<>>]
    IN  \/ (ScoreGreater(main, alt, 24, 10) /\ AreaGreater(main, alt, 18, 10))
        \/ (AreaGreater(all, main, 145, 100) /\ ScoreGreater(main, alt, 16, 10))

\* the cluster filter on the merged contours (lines 1458-1522)
ClusterFilter(merged, u) ==
    LET Main(b, groups) ==
            IF ~keepOnlyMain(groups[1], groups[2], b) THEN merged
            ELSE [k \in 1..Len(groups[1].idxs) |-> merged[groups[1].idxs[k]]]
        Scored(b, idxLists) ==
            IF Len(idxLists) < 2 THEN merged
            ELSE Main(b, SortGroups([g \in 1..Len(idxLists) |->
                                       GroupOf(merged, idxLists[g], u)]))
        Grouped(b) ==
            IF Len(merged) < 2 \/ FlatBounds(b) THEN merged
            ELSE Scored(b, GroupsFrom([i \in 1..Len(merged) |-> BoundsOf(merged[i].points)],
                                      1, [i \in 1..Len(merged) |-> FALSE], JoinGap(b, u)))
    IN  Grouped(ContoursBounds(merged))

\* cleanImportedContoursCnc(contours)
cleanImportedContoursCnc(contours, u) ==
    LET Merged(cleaned, stitched) ==
            ClusterFilter(IF Len(stitched) > 0 THEN stitched ELSE cleaned, u)
        Stitched(cleaned, join) ==
            Merged(cleaned,
                   stitchContoursForContinuity(cleaned, join, StitchClose(join, u), u))
        Bounded(cleaned, b) ==
            IF FlatBounds(b) THEN cleaned ELSE Stitched(cleaned, StitchJoin(b, u))
        Cleaned(cleaned) ==
            IF Len(cleaned) < 2 THEN cleaned ELSE Bounded(cleaned, ContoursBounds(cleaned))
    IN  Cleaned(Flatten([i \in 1..Len(contours) |-> CleanOne(contours[i])]))

\* a plausible slip: the contours are returned where they are, only the extent is computed
ShiftToOriginNot(cs) ==
    LET b == ContoursBounds(cs)
    IN  [contours |-> cs, width |-> b.maxX - b.minX, height |-> b.maxY - b.minY]

\* the shift to the origin shared by both normalizers: [contours, width, height]
ShiftToOrigin(cs) ==
    LET b == ContoursBounds(cs)
    IN  [contours |-> [i \in 1..Len(cs) |->
                         [closed |-> cs[i].closed,
                          points |-> [k \in 1..Len(cs[i].points) |->
                                        <<cs[i].points[k][1] - b.minX,
                                          cs[i].points[k][2] - b.minY>>]]],
         width    |-> b.maxX - b.minX,
         height   |-> b.maxY - b.minY]

\* normalizeContoursCnc(contours): <<result>>, or <<>> for null
normalizeContoursCnc(contours, u) ==
    LET Shifted(filtered) == IF Len(filtered) = 0 THEN <<>> ELSE <<ShiftToOrigin(filtered)>>
    IN  Shifted(cleanImportedContoursCnc(contours, u))

\* normalizeContoursSimple(contours): <<result>>, or <<>> for null
normalizeContoursSimple(contours) ==
    LET kept  == SelectSeq(contours, LAMBDA c : Len(c.points) >= 2)
        valid == [i \in 1..Len(kept) |->
                    [points |-> kept[i].points,
                     closed |-> kept[i].closed /\ Len(kept[i].points) >= 3]]
    IN  IF Len(valid) = 0 THEN <<>> ELSE <<ShiftToOrigin(valid)>>

\* parseDxfAsciiCnc(text, {preferSimple}) on the entities of the text
parseDxfAsciiCnc(es, preferSimple, u) ==
    LET Pick(cnc, simple) ==
            IF preferSimple THEN (IF simple # <<>> THEN simple ELSE cnc)
            ELSE (IF cnc # <<>> THEN cnc ELSE simple)
        Normalize(contours) ==
            Pick(normalizeContoursCnc(contours, u), normalizeContoursSimple(contours))
    IN  Normalize(EntityContours(es))

-----------------------------------------------------------------------------
(* importWithCncContours: the helpers of its decisions *)

\* a plausible slip: the early return for fewer than 3 contours left out
shouldReparseAnyCount(p) ==
    LET usable    == SelectSeq(p.contours, LAMBDA c : Len(c.points) >= 2)
        openCount == Len(SelectSeq(usable, LAMBDA c : ~c.closed))
        wh        == p.width * p.height
    IN  /\ openCount >= 2
        /\ \A i \in 1..Len(usable) :
               (usable[i].closed /\ Len(usable[i].points) >= 3) =>
                   100 * Abs(polygonAreaSigned(usable[i].points)) < 4 * wh

\* shouldReparseInRawLineArcMode(parsed)
shouldReparseInRawLineArcMode(p) ==
    IF Len(p.contours) < 3 THEN FALSE
    ELSE LET usable    == SelectSeq(p.contours, LAMBDA c : Len(c.points) >= 2)
             openCount == Len(SelectSeq(usable, LAMBDA c : ~c.closed))
             closedA   == {Abs(polygonAreaSigned(usable[i].points)) :
                             i \in {k \in 1..Len(usable) :
                                      usable[k].closed /\ Len(usable[k].points) >= 3}}
             wh        == p.width * p.height
         IN  /\ openCount >= 2
             /\ \A a \in closedA : IF wh = 0 THEN a = 0 ELSE 100 * a < 4 * wh

\* the doubled areas of the valid loops of shouldForceHullFromTinyClosedLoops
ValidAreas(cl) ==
    LET areas == [i \in 1..Len(cl) |->
                    IF Len(cl[i]) < 3 THEN 0 ELSE Abs(polygonAreaSigned(cl[i]))]
    IN  SelectSeq(areas, LAMBDA a : a > 0)

\* shouldForceHullFromTinyClosedLoops(closedLoops, sourceArea, openEntityCount,
\* stitchedLoopCount), sourceArea = wh grid steps squared
shouldForceHullFromTinyClosedLoops(cl, wh, openEntityCount, stitchedLoopCount) ==
    IF ~(wh > 0) \/ openEntityCount < 2 \/ stitchedLoopCount < 2 \/ Len(cl) < 4 THEN FALSE
    ELSE LET Counts(areas) ==
                 LET tinyCount  == Len(SelectSeq(areas, LAMBDA a : 10000 * a <= 70 * wh))
                     largeCount == Len(SelectSeq(areas, LAMBDA a : 100 * a >= 4 * wh))
                 IN  /\ Len(areas) >= 4
                     /\ largeCount = 0
                     /\ tinyCount >= Min2(6, Len(areas))
         IN  Counts(ValidAreas(cl))

\* collectTinyClosedLoops(closedLoops, sourceArea)
collectTinyClosedLoops(cl, wh) ==
    IF ~(wh > 0) THEN <<>>
    ELSE SelectSeq(cl, LAMBDA l : /\ Len(l) >= 3
                                  /\ Abs(polygonAreaSigned(l)) > 0
                                  /\ 10000 * Abs(polygonAreaSigned(l)) <= 70 * wh)

\* the tolerances of findDominantOuterLoopFromOpenContours in thousandths of a unit,
\* ascending: the fixed ones, and safeMinSide * k / 1000 rounded to 3 decimals and
\* clamped to [0.6, 20]
DominantTolerances(minSide, u) ==
    SetToSortedSeq({600, 1000, 2000, 3000, 4000, 5000, 6000, 8000, 10000, 12000, 16000, 20000}
                   \cup {Min2(20000, Max2(600, Round(k * minSide, u))) :
                           k \in {4, 6, 8, 12, 16, 20, 30}})

RECURSIVE BestOfLoops(_, _, _, _)
\* the inner loop over the stitched loops: best = [area, loop]
BestOfLoops(ls, i, best, wh) ==
    IF i > Len(ls) THEN best
    ELSE LET Better(openPts, area) ==
                 IF ~(area > best.area) \/ 10 * area > 24 * wh
                 THEN BestOfLoops(ls, i + 1, best, wh)
                 ELSE BestOfLoops(ls, i + 1, [area |-> area, loop |-> openPts], wh)
             Measure(openPts) == Better(openPts, Abs(polygonAreaSigned(openPts)))
             Closed(closedPts) ==
                 IF Len(closedPts) < 4 THEN BestOfLoops(ls, i + 1, best, wh)
                 ELSE Measure(SubSeq(closedPts, 1, Len(closedPts) - 1))
         IN  Closed(buildClosedPointList(ls[i]))

RECURSIVE BestOverTolerances(_, _, _, _, _, _)
BestOverTolerances(oc, tols, i, best, wh, u) ==
    IF i > Len(tols) THEN best
    ELSE LET Enough(b) ==
                 IF 100 * b.area >= 150 * wh THEN b
                 ELSE BestOverTolerances(oc, tols, i + 1, b, wh, u)
         IN  Enough(BestOfLoops(stitchClosedLoopsFromOpenContours(
                                    oc, TolOf(tols[i] * u, 1000), u), 1, best, wh))

\* findDominantOuterLoopFromOpenContours(openContours, sourceArea, minSideHint):
\* the loop, or <<>> for null; wh and minSide in grid steps
findDominantOuterLoopFromOpenContours(oc, wh, minSide, u) ==
    IF Len(oc) < 2 \/ ~(wh > 0) THEN <<>>
    ELSE LET Dominant(best) == IF ~(100 * best.area >= 90 * wh) THEN <<>> ELSE best.loop
         IN  Dominant(BestOverTolerances(oc, DominantTolerances(minSide, u), 1,
                                         [area |-> 0, loop |-> <<>>], wh, u))

\* the steps of lines 3005-3016 that are run, in the order they are run: the segment
\* extractor at 1e-4, 1e-2 and 5e-2, the open-contour stitcher.  A later step is run
\* when segmentLoops is still empty and its input is not.
ProgressiveRuns(segs, oc, u) ==
    LET l1 == extractClosedLoopsFromSegments(segs, 1, 10000, u)
        run2 == Len(l1) = 0 /\ Len(segs) > 0
        l2 == IF run2 THEN extractClosedLoopsFromSegments(segs, 1, 100, u) ELSE l1
        run3 == Len(l2) = 0 /\ Len(segs) > 0
        l3 == IF run3 THEN extractClosedLoopsFromSegments(segs, 5, 100, u) ELSE l2
        run4 == Len(l3) = 0 /\ Len(oc) > 0
    IN  <<"1e-4">> \o (IF run2 THEN <<"1e-2">> ELSE <<>>)
        \o (IF run3 THEN <<"5e-2">> ELSE <<>>) \o (IF run4 THEN <<"stitch">> ELSE <<>>)

\* a plausible slip: the open contours are stitched whether or not the extractor found
\* loops
ProgressiveLoopsStitchAlways(segs, oc, w, h, u) ==
    LET Fourth(l3) ==
            IF Len(oc) > 0
            THEN stitchClosedLoopsFromOpenContours(oc, StitchTol(w, h, u), u) ELSE l3
        Third(l2) ==
            Fourth(IF Len(l2) = 0 /\ Len(segs) > 0
                   THEN extractClosedLoopsFromSegments(segs, 5, 100, u) ELSE l2)
        Second(l1) ==
            Third(IF Len(l1) = 0 /\ Len(segs) > 0
                  THEN extractClosedLoopsFromSegments(segs, 1, 100, u) ELSE l1)
    IN  Second(extractClosedLoopsFromSegments(segs, 1, 10000, u))

\* the progressive extraction of lines 3005-3016
ProgressiveLoops(segs, oc, w, h, u) ==
    LET Fourth(l3) ==
            IF Len(l3) = 0 /\ Len(oc) > 0
            THEN stitchClosedLoopsFromOpenContours(oc, StitchTol(w, h, u), u) ELSE l3
        Third(l2) ==
            Fourth(IF Len(l2) = 0 /\ Len(segs) > 0
                   THEN extractClosedLoopsFromSegments(segs, 5, 100, u) ELSE l2)
        Second(l1) ==
            Third(IF Len(l1) = 0 /\ Len(segs) > 0
                  THEN extractClosedLoopsFromSegments(segs, 1, 100, u) ELSE l1)
    IN  Second(extractClosedLoopsFromSegments(segs, 1, 10000, u))

-----------------------------------------------------------------------------
(* The steps of importWithCncContours and buildShapesFromClosedLoops *)

\* lines 2950-2960: the first parse of a document that did not arrive preParsed
ParseDxf ==
    /\ pc = "parse"
    /\ parsed' = parseDxfAsciiCnc(entities, FALSE, unit)
    /\ pc' = "reparse"
    /\ UNCHANGED <<unit, entities, fromBackend, rawLineArcMode, closedLoops,
                   declaredClosedLoops, allPoints, segments, openContours,
                   fallbackOpenShapes, segmentLoops, forceHull, loops, childrenByParent,
                   pseudoHoleSkipSet, guard, shapes, densePath, returned, run, firstShapes>>
    /\ UNCHANGED <<selectionPrimaryLoop, reattachedLoops, extractorRuns, pageVars, poolVars, cacheVars>>

\* lines 2961-2974: the raw LINE/ARC reparse and the two early returns
ReparseAndValidate ==
    /\ pc = "reparse"
    /\ LET Validate(p, took) ==
               LET valid == /\ Len(p) > 0
                            /\ Len(p[1].contours) >= 1
                            /\ p[1].width > 0
                            /\ p[1].height > 0
               IN  /\ parsed' = p
                   /\ rawLineArcMode' = took
                   /\ pc' = IF valid THEN "collect" ELSE "done"
                   /\ returned' = IF valid THEN returned ELSE "false"
           Reparse(rawParsed) ==
               LET took == Len(rawParsed) > 0 /\ Len(rawParsed[1].contours) > 0
               IN  Validate(IF took THEN rawParsed ELSE parsed, took)
       IN  Reparse(IF /\ ~fromBackend
                      /\ Len(parsed) > 0
                      /\ shouldReparseInRawLineArcMode(parsed[1])
                   THEN parseDxfAsciiCnc(entities, TRUE, unit) ELSE <<>>)
    /\ UNCHANGED <<unit, entities, fromBackend, closedLoops, declaredClosedLoops, allPoints,
                   segments, openContours, fallbackOpenShapes, segmentLoops, forceHull,
                   loops, childrenByParent, pseudoHoleSkipSet, guard, shapes, densePath,
                   run, firstShapes>>
    /\ UNCHANGED <<selectionPrimaryLoop, reattachedLoops, extractorRuns, pageVars, poolVars, cacheVars>>

\* lines 2976-3003: the loop over parsed.contours
CollectContours ==
    /\ pc = "collect"
    /\ LET Collect(usable, closedC, openC) ==
               /\ allPoints' = Flatten([i \in 1..Len(usable) |-> usable[i].points])
               /\ closedLoops' =
                      SelectSeq([i \in 1..Len(closedC) |-> OutlineOpen(closedC[i].points)],
                                LAMBDA l : Len(l) > 0)
               /\ declaredClosedLoops' = closedLoops'
               /\ openContours' = [i \in 1..Len(openC) |-> openC[i].points]
               /\ segments' = Flatten([i \in 1..Len(openC) |->
                                         appendSegmentsFromPointList(openC[i].points)])
               /\ fallbackOpenShapes' =
                      SelectSeq([i \in 1..Len(openC) |->
                                    buildClosedPointList(openC[i].points)],
                                LAMBDA l : Len(l) > 0)
           Usable(usable) ==
               Collect(usable, SelectSeq(usable, LAMBDA c : c.closed),
                       SelectSeq(usable, LAMBDA c : ~c.closed))
       IN  Usable(SelectSeq(parsed[1].contours, LAMBDA c : Len(c.points) >= 2))
    /\ pc' = "extract"
    /\ UNCHANGED <<unit, entities, fromBackend, parsed, rawLineArcMode, segmentLoops,
                   forceHull, loops, childrenByParent, pseudoHoleSkipSet, guard, shapes,
                   densePath, returned, run, firstShapes>>
    /\ UNCHANGED <<selectionPrimaryLoop, reattachedLoops, extractorRuns, pageVars, poolVars, cacheVars>>

\* lines 3005-3016: progressive snapping, then the open-contour stitch
ExtractSegmentLoops ==
    /\ pc = "extract"
    /\ segmentLoops' = ProgressiveLoops(segments, openContours,
                                        parsed[1].width, parsed[1].height, unit)
    /\ extractorRuns' = ProgressiveRuns(segments, openContours, unit)
    /\ pc' = "closed"
    /\ UNCHANGED <<unit, entities, fromBackend, parsed, rawLineArcMode, closedLoops,
                   declaredClosedLoops, allPoints, segments, openContours,
                   fallbackOpenShapes, forceHull, loops, childrenByParent,
                   pseudoHoleSkipSet, guard, shapes, densePath, returned, run, firstShapes>>
    /\ UNCHANGED <<selectionPrimaryLoop, reattachedLoops, pageVars, poolVars, cacheVars>>

\* lines 3018-3050: the forced-hull decision and the final closedLoops
AssembleClosedLoops ==
    /\ pc = "closed"
    /\ LET wh      == parsed[1].width * parsed[1].height
           minSide == Max2(unit, Min2(parsed[1].width, parsed[1].height))
           Decide(force, stitchedOuterLoop) ==
               /\ forceHull' = (force /\ ~(Len(stitchedOuterLoop) >= 3))
               /\ closedLoops' =
                      IF Len(stitchedOuterLoop) >= 3
                      THEN Append(collectTinyClosedLoops(declaredClosedLoops, wh),
                                  stitchedOuterLoop)
                      ELSE closedLoops
                           \o SelectSeq([i \in 1..Len(segmentLoops) |->
                                           OutlineOpen(segmentLoops[i])],
                                        LAMBDA l : Len(l) > 0)
           Forced(force) ==
               Decide(force,
                      IF force
                      THEN findDominantOuterLoopFromOpenContours(openContours, wh,
                                                                 minSide, unit)
                      ELSE <<>>)
       IN  Forced(/\ ~rawLineArcMode
                  /\ shouldForceHullFromTinyClosedLoops(declaredClosedLoops, wh,
                         Len(openContours), Len(segmentLoops)))
    /\ pc' = "records"
    /\ UNCHANGED <<unit, entities, fromBackend, parsed, rawLineArcMode, declaredClosedLoops,
                   allPoints, segments, openContours, fallbackOpenShapes, segmentLoops,
                   loops, childrenByParent, pseudoHoleSkipSet, guard, shapes, densePath,
                   returned, run, firstShapes>>
    /\ UNCHANGED <<selectionPrimaryLoop, reattachedLoops, extractorRuns, pageVars, poolVars, cacheVars>>

\* lines 2416-2427: the loop records; no record, no shape
BuildLoopRecords ==
    /\ pc = "records"
    /\ loops' = BuildRecords(closedLoops, unit)
    /\ pc' = IF Len(loops') = 0 THEN "finish" ELSE "hull"
    /\ shapes' = <<>>
    /\ densePath' = FALSE
    /\ pseudoHoleSkipSet' = {}
    /\ childrenByParent' = <<>>
    /\ UNCHANGED <<unit, entities, fromBackend, parsed, rawLineArcMode, closedLoops,
                   declaredClosedLoops, allPoints, segments, openContours,
                   fallbackOpenShapes, segmentLoops, forceHull, guard, returned, run,
                   firstShapes>>
    /\ UNCHANGED <<selectionPrimaryLoop, reattachedLoops, extractorRuns, pageVars, poolVars, cacheVars>>

\* lines 2429-2524: the forced hull, then the hull fallback (allowHullFallback is true)
InjectHull ==
    /\ pc = "hull"
    /\ LET Inject(src) ==
               loops' = HullFallbackLoops(
                            IF forceHull /\ src.has /\ Len(allPoints) >= 3
                            THEN ForceHullLoops(loops, allPoints, src, unit) ELSE loops,
                            allPoints, src, unit)
       IN  Inject(SourceBBox(allPoints))
    /\ pc' = "dense"
    /\ UNCHANGED <<unit, entities, fromBackend, parsed, rawLineArcMode, closedLoops,
                   declaredClosedLoops, allPoints, segments, openContours,
                   fallbackOpenShapes, segmentLoops, forceHull, childrenByParent,
                   pseudoHoleSkipSet, guard, shapes, densePath, returned, run, firstShapes>>
    /\ UNCHANGED <<selectionPrimaryLoop, reattachedLoops, extractorRuns, pageVars, poolVars, cacheVars>>

\* lines 2526-2589: the dense perforated panel fast path
DenseFastPath ==
    /\ pc = "dense"
    /\ shapes' = tryBuildDensePerforatedPanelShape(loops, SourceBBox(allPoints), unit)
    /\ densePath' = (Len(shapes') > 0)
    /\ pc' = IF Len(shapes') > 0 THEN "finish" ELSE "hierarchy"
    /\ UNCHANGED <<unit, entities, fromBackend, parsed, rawLineArcMode, closedLoops,
                   declaredClosedLoops, allPoints, segments, openContours,
                   fallbackOpenShapes, segmentLoops, forceHull, loops, childrenByParent,
                   pseudoHoleSkipSet, guard, returned, run, firstShapes>>
    /\ UNCHANGED <<selectionPrimaryLoop, reattachedLoops, extractorRuns, pageVars, poolVars, cacheVars>>

\* line 2636: childrenByParent = computeLoopHierarchy()
ComputeHierarchy ==
    /\ pc = "hierarchy"
    /\ loops' = computeLoopHierarchy(loops, unit)
    /\ childrenByParent' = ChildrenMap(loops')
    /\ pc' = "fragmented"
    /\ UNCHANGED <<unit, entities, fromBackend, parsed, rawLineArcMode, closedLoops,
                   declaredClosedLoops, allPoints, segments, openContours,
                   fallbackOpenShapes, segmentLoops, forceHull, pseudoHoleSkipSet, guard,
                   shapes, densePath, returned, run, firstShapes>>
    /\ UNCHANGED <<selectionPrimaryLoop, reattachedLoops, extractorRuns, pageVars, poolVars, cacheVars>>

\* lines 2638-2697: the fragmented-sheet replacement; the skip set starts empty
FragmentedSheet ==
    /\ pc = "fragmented"
    /\ loops' = FragmentedSheetLoops(loops, allPoints, SourceBBox(allPoints), unit)
    /\ childrenByParent' = ChildrenMap(loops')
    /\ pseudoHoleSkipSet' = {}
    /\ guard' = 0
    /\ pc' = "pseudo"
    /\ UNCHANGED <<unit, entities, fromBackend, parsed, rawLineArcMode, closedLoops,
                   declaredClosedLoops, allPoints, segments, openContours,
                   fallbackOpenShapes, segmentLoops, forceHull, shapes, densePath,
                   returned, run, firstShapes>>
    /\ UNCHANGED <<selectionPrimaryLoop, reattachedLoops, extractorRuns, pageVars, poolVars, cacheVars>>

\* lines 2747-2780: one call of normalizePseudoHoleContainers inside the guard loop
PseudoHolePass ==
    /\ pc = "pseudo"
    /\ guard < MaxPseudoHolePasses
    /\ LET Pass(newSkip, changed) ==
               /\ pseudoHoleSkipSet' = pseudoHoleSkipSet \cup newSkip
               /\ loops' = IF changed
                           THEN WithDepths(Reattached(loops, childrenByParent, newSkip))
                           ELSE loops
               /\ childrenByParent' = IF changed THEN ChildrenMap(loops')
                                      ELSE childrenByParent
               /\ reattachedLoops' = reattachedLoops \cup GrandChildrenOf(loops, newSkip)
               /\ guard' = guard + 1
               /\ pc' = IF changed /\ guard + 1 < MaxPseudoHolePasses
                        THEN "pseudo" ELSE "assemble"
           Skip(newSkip) ==
               Pass(newSkip, \E c \in newSkip : Len(childrenByParent[c]) > 0)
       IN  Skip(NewlySkipped(loops, childrenByParent, pseudoHoleSkipSet, unit))
    /\ UNCHANGED <<unit, entities, fromBackend, parsed, rawLineArcMode, closedLoops,
                   declaredClosedLoops, allPoints, segments, openContours,
                   fallbackOpenShapes, segmentLoops, forceHull, shapes, densePath,
                   returned, run, firstShapes>>
    /\ UNCHANGED <<selectionPrimaryLoop, extractorRuns, pageVars, poolVars, cacheVars>>

\* lines 2814-2842: one shape per kept even-depth loop
AssembleShapesStep ==
    /\ pc = "assemble"
    /\ shapes' = AssembleShapes(loops, childrenByParent, pseudoHoleSkipSet,
                                SourceBBox(allPoints), unit)
    /\ pc' = "filter"
    /\ UNCHANGED <<unit, entities, fromBackend, parsed, rawLineArcMode, closedLoops,
                   declaredClosedLoops, allPoints, segments, openContours,
                   fallbackOpenShapes, segmentLoops, forceHull, loops, childrenByParent,
                   pseudoHoleSkipSet, guard, densePath, returned, run, firstShapes>>
    /\ UNCHANGED <<selectionPrimaryLoop, reattachedLoops, extractorRuns, pageVars, poolVars, cacheVars>>

\* lines 2861-2947: the artifact filter and the return of buildShapesFromClosedLoops
FilterArtifacts ==
    /\ pc = "filter"
    /\ shapes' = ArtifactFilter(loops, shapes, SourceBBox(allPoints), unit)
    /\ pc' = "finish"
    /\ UNCHANGED <<unit, entities, fromBackend, parsed, rawLineArcMode, closedLoops,
                   declaredClosedLoops, allPoints, segments, openContours,
                   fallbackOpenShapes, segmentLoops, forceHull, loops, childrenByParent,
                   pseudoHoleSkipSet, guard, densePath, returned, run, firstShapes>>
    /\ UNCHANGED <<selectionPrimaryLoop, reattachedLoops, extractorRuns, pageVars, poolVars, cacheVars>>

\* a plausible slip: the import reports success whether or not a mesh was built
LocalGroupChildrenSome(shs, open) == 1

\* localGroup.children.length at line 3079: one mesh per shape; when there is none,
\* one per open contour closed automatically (lines 3061-3077)
LocalGroupChildren(shs, open) ==
    IF Len(shs) > 0 THEN Len(shs) ELSE Len(open)

\* a plausible slip: the first usable loop is taken, whatever its area
LargestLoopFirst(ls) ==
    LET usable == {i \in 1..Len(ls) : Len(ls[i]) >= 3 /\ Abs(polygonAreaSigned(ls[i])) > 0}
    IN  IF usable = {} THEN <<>>
        ELSE ls[CHOOSE i \in usable : \A j \in usable : i <= j]

\* the first loop of the largest area among those of at least 3 points and of an area
\* over 1e-8 (the scans at lines 2150-2156 and 2191-2205); <<>> when there is none
LargestLoop(ls) ==
    LET usable == {i \in 1..Len(ls) : Len(ls[i]) >= 3 /\ Abs(polygonAreaSigned(ls[i])) > 0}
    IN  IF usable = {} THEN <<>>
        ELSE ls[CHOOSE i \in usable :
                    /\ \A j \in usable :
                           Abs(polygonAreaSigned(ls[j])) <= Abs(polygonAreaSigned(ls[i]))
                    /\ \A j \in usable :
                           j < i => Abs(polygonAreaSigned(ls[j])) < Abs(polygonAreaSigned(ls[i]))]

\* choosePrimarySelectionLoop(closedLoops, allPoints): <<>> stands for null.  The loop
\* found is returned at line 2158, so the test of its share of the source bounds (lines
\* 2163-2170) is never reached with a loop.
choosePrimarySelectionLoop(cl, pts) ==
    LET Chosen(bestLoop) ==
            IF Len(bestLoop) >= 3 THEN bestLoop ELSE convexHullFromPoints(pts)
    IN  Chosen(LargestLoop(cl))

\* the outline shape.getPoints(320) gives for a shape of straight segments: its vertices,
\* the closing one popped (lines 2194-2199)
ShapeOutline(sh) == sh.outer

\* assignSelectionOutlineDataFromShapes(localGroup, shapes, closedLoops, allPoints): the
\* selectionPrimaryLoop it leaves in the group
assignSelectionOutlineDataFromShapes(shs, cl, pts) ==
    LET Assigned(bestLoop) ==
            IF Len(bestLoop) >= 3 THEN bestLoop ELSE choosePrimarySelectionLoop(cl, pts)
    IN  Assigned(LargestLoop([k \in 1..Len(shs) |-> ShapeOutline(shs[k])]))

\* lines 3060-3079: the meshes; the open contours closed automatically when no shape came
FinishImport ==
    /\ pc = "finish"
    /\ selectionPrimaryLoop' =
           assignSelectionOutlineDataFromShapes(shapes, closedLoops, allPoints)
    /\ returned' = IF LocalGroupChildren(shapes, fallbackOpenShapes) > 0
                   THEN "true" ELSE "false"
    /\ pc' = "done"
    /\ UNCHANGED <<unit, entities, fromBackend, parsed, rawLineArcMode, closedLoops,
                   declaredClosedLoops, allPoints, segments, openContours,
                   fallbackOpenShapes, segmentLoops, forceHull, loops, childrenByParent,
                   pseudoHoleSkipSet, guard, shapes, densePath, run, firstShapes,
                   reattachedLoops, extractorRuns>>
    /\ UNCHANGED <<pageVars, poolVars, cacheVars>>

-----------------------------------------------------------------------------
(* Documents: the inputs the runs are drawn from *)

\* an axis-parallel rectangle, counter-clockwise from its lower left corner
Sq(x, y, w, h) == <<<<x, y>>, <<x + w, y>>, <<x + w, y + h>>, <<x, y + h>>>>

\* a square standing on a corner, counter-clockwise, of half diagonal r
Diamond(cx, cy, r) == <<<<cx + r, cy>>, <<cx, cy + r>>, <<cx - r, cy>>, <<cx, cy - r>>>>

Shift(pts, off) == [i \in 1..Len(pts) |-> <<pts[i][1] + off[1], pts[i][2] + off[2]>>]

\* a closed LWPOLYLINE and a LINE entity
Poly(pts) == [type |-> "LWPOLYLINE", pts |-> pts, closed |-> TRUE]

LineEnt(a, b) == [type |-> "LINE", pts |-> <<a, b>>, closed |-> FALSE]

Polys(loopsPts, off) == [i \in 1..Len(loopsPts) |-> Poly(Shift(loopsPts[i], off))]

Doc(u, backend, ents) == [unit |-> u, backend |-> backend, ents |-> ents]

\* the offsets a drawing is placed at before the normalizer moves it to the origin
Offsets == {<<0, 0>>, <<-30, 40>>}

\* the centres of the eight tiny loops of the pseudo-hole drawing
TinyCentres == <<<<20, 20>>, <<50, 20>>, <<80, 20>>, <<20, 50>>,
                 <<80, 50>>, <<20, 80>>, <<50, 80>>, <<80, 80>>>>

TinyLoops(kind, n) ==
    [i \in 1..n |-> IF kind = "square"
                    THEN Sq(TinyCentres[i][1] - 1, TinyCentres[i][2] - 1, 2, 2)
                    ELSE Diamond(TinyCentres[i][1], TinyCentres[i][2], 1)]

\* README 7.2: a 100 x 100 border, its 98 x 98 duplicate inset by 1, and n tiny loops
PseudoHoleLoops(kind, n, innerFirst, outerCw) ==
    LET outer == IF outerCw THEN Reverse(Sq(0, 0, 100, 100)) ELSE Sq(0, 0, 100, 100)
        inner == Sq(1, 1, 98, 98)
    IN  (IF innerFirst THEN <<inner, outer>> ELSE <<outer, inner>>) \o TinyLoops(kind, n)

PseudoHoleDocs ==
    {Doc(1, b, Polys(PseudoHoleLoops(kind, 8, innerFirst, outerCw), off)) :
        kind \in {"square", "diamond"}, innerFirst \in BOOLEAN, outerCw \in BOOLEAN,
        off \in Offsets, b \in BOOLEAN}
    \cup {Doc(1, TRUE, Polys(PseudoHoleLoops("square", n, FALSE, FALSE), <<0, 0>>)) : n \in {3, 5}}

\* README 7.4: the perimeter of a 10 x 10 square traced twice in one closed polyline
TwiceTraced(w, h) == Sq(0, 0, w, h) \o Sq(0, 0, w, h)

CompoundDocs ==
    {Doc(1, b, IF bigFirst
               THEN <<Poly(Sq(-m, -m, 10 + 2 * m, 10 + 2 * m)), Poly(TwiceTraced(10, 10))>>
               ELSE <<Poly(TwiceTraced(10, 10)), Poly(Sq(-m, -m, 10 + 2 * m, 10 + 2 * m))>>) :
        m \in {5, 20}, bigFirst \in BOOLEAN, b \in BOOLEAN}

\* compound loops for the splitter: a perimeter traced k times, and a twice traced
\* square continued through a clockwise lobe inside it
Traced(w, h, k) == Flatten([i \in 1..k |-> Sq(0, 0, w, h)])

LobedSquare == TwiceTraced(10, 10) \o <<<<0, 0>>, <<1, 8>>, <<8, 8>>, <<8, 1>>>>

SplitterDocs ==
    {Doc(1, b, <<Poly(Traced(w, 10, k))>>) : w \in {10, 16}, k \in {2, 3}, b \in BOOLEAN}
    \cup {Doc(1, b, <<Poly(LobedSquare)>>) : b \in BOOLEAN}
    \cup {Doc(1, TRUE, <<Poly(Sq(-5, -5, 20, 20)), Poly(LobedSquare)>>)}

\* four LINEs around a square of the given side, adjacent ends `gap' apart
GappedSquare(side, gap, flip) ==
    << LineEnt(<<0, 0>>, <<side - gap, 0>>),
       IF flip THEN LineEnt(<<side, side - gap>>, <<side, 0>>)
               ELSE LineEnt(<<side, 0>>, <<side, side - gap>>),
       LineEnt(<<side, side>>, <<gap, side>>),
       LineEnt(<<0, side>>, <<0, gap>>) >>

\* the sides (in drawing units) of the gapped squares; the grid has 2 steps per unit
GappedSides == {10, 40, 99, 100, 120, 200}

GappedDocs ==
    {Doc(2, b, GappedSquare(2 * side, 1, flip)) :
        side \in GappedSides, flip \in BOOLEAN, b \in BOOLEAN}

\* n columns by m rows of equal d x d loops, `pitch' apart, the first at (x0, y0)
GridLoops(x0, y0, d, pitch, n, m) ==
    [k \in 1..(n * m) |-> Sq(x0 + pitch * ((k - 1) % n), y0 + pitch * ((k - 1) \div n), d, d)]

\* a panel: a w x w outer square and a grid of loops inside it
PanelDoc(u, w, x0, y0, d, pitch, n, m, outerLast) ==
    LET holes == GridLoops(x0, y0, d, pitch, n, m)
    IN  Doc(u, TRUE, Polys(IF outerLast THEN Append(holes, Sq(0, 0, w, w))
                           ELSE <<Sq(0, 0, w, w)>> \o holes, <<0, 0>>))

\* the small panels go through the general path, the 15 x 15 and 16 x 15 ones through
\* the dense one; in all of them the loops are apart by more than their own size
SparsePanelDocs ==
    {PanelDoc(1, 20, 3, 3, 2, 6, 3, 3, FALSE), PanelDoc(1, 20, 3, 3, 2, 6, 3, 2, TRUE),
     PanelDoc(1, 64, 2, 2, 2, 4, 14, 15, FALSE),
     PanelDoc(1, 64, 2, 2, 2, 4, 15, 15, FALSE), PanelDoc(1, 64, 2, 2, 2, 4, 16, 15, TRUE)}

\* a 64 x 64 unit panel on a grid of 8 steps per unit with three rows of equal 9 x 9
\* loops whose centres are 1/8 unit apart: 198 loops (general path), 300 loops (dense)
PackedPanelDocs ==
    {PanelDoc(8, 512, 8, 8, 72, 1, n, 3, FALSE) : n \in {66, 100}}

\* two 1 x 1 squares in opposite corners of a 200 x 200 extent
CornerDocs ==
    {Doc(1, b, Polys(<<Sq(0, 0, 1, 1), Sq(199, 199, 1, 1)>>, off)) :
        b \in BOOLEAN, off \in Offsets}

\* a 100 x 100 sheet, a container reaching over its right edge with a loop in the part
\* outside the sheet, and six tiny loops in the sheet
OverlapDocs ==
    {Doc(1, b, Polys(<<Sq(0, 0, 100, 100), Sq(10, 20, 120, 65), Sq(110, 50, 10, 10)>>
                     \o GridLoops(5, 5, 2, 10, 6, 1), off)) :
        b \in BOOLEAN, off \in Offsets}

\* plain nestings: a part with a hole and an island, two parts, a loop whose centre
\* lies on the edge of a larger one, an L, a triangle, five levels
NestingLoops ==
    { <<Sq(0, 0, 40, 40)>>,
      <<Reverse(Sq(0, 0, 40, 40))>>,
      <<Sq(0, 0, 40, 40), Sq(10, 10, 20, 20), Sq(15, 15, 6, 6)>>,
      <<Sq(15, 15, 6, 6), Reverse(Sq(10, 10, 20, 20)), Reverse(Sq(0, 0, 40, 40))>>,
      <<Sq(0, 0, 20, 20), Sq(30, 0, 20, 30), Diamond(40, 10, 4)>>,
      <<Sq(0, 0, 20, 20), Sq(18, 8, 4, 4)>>,
      <<Sq(0, 0, 20, 20), Sq(8, 18, 4, 4), Diamond(10, 8, 3)>>,
      <<<<<<0, 0>>, <<30, 0>>, <<30, 10>>, <<10, 10>>, <<10, 30>>, <<0, 30>>>>, Sq(2, 2, 4, 4)>>,
      <<<<<<0, 0>>, <<30, 0>>, <<0, 30>>>>, Sq(4, 4, 6, 6)>>,
      <<Sq(0, 0, 100, 100), Sq(10, 10, 80, 80), Sq(20, 20, 60, 60), Sq(30, 30, 40, 40),
        Sq(40, 40, 20, 20)>>,
      <<Sq(0, 0, 200, 200), Sq(90, 90, 12, 12), Sq(93, 93, 6, 6), Sq(20, 20, 30, 30)>> }

NestingDocs ==
    {Doc(1, b, Polys(ls, off)) : ls \in NestingLoops, b \in BOOLEAN, off \in Offsets}

\* a part and something far from it: a tiny loop, a second part, a stray LINE
FarClusterDocs ==
    {Doc(1, FALSE, Polys(<<Sq(0, 0, 20, 20), Sq(5, 5, 4, 4), Sq(fx, fy, 2, 2)>>, off)) :
        fx \in {-300, 500}, fy \in {-300, 500}, off \in Offsets}
    \cup {Doc(1, FALSE, Polys(<<Sq(0, 0, 20, 20), Sq(100, 0, 20, 20)>>, off)) : off \in Offsets}
    \cup {Doc(1, FALSE, Polys(<<Sq(0, 0, 20, 20), Sq(5, 5, 4, 4)>>, <<0, 0>>)
                        \o <<LineEnt(<<300, 300>>, <<304, 300>>)>>)}

\* the four LINEs of a closed square
LineSquare(x, y, w) ==
    << LineEnt(<<x, y>>, <<x + w, y>>), LineEnt(<<x + w, y>>, <<x + w, y + w>>),
       LineEnt(<<x + w, y + w>>, <<x, y + w>>), LineEnt(<<x, y + w>>, <<x, y>>) >>

\* a LINE/ARC plate export: tiny closed loops, two small squares drawn with LINEs, and
\* a border of LINEs with gaps (all of it, or only two sides of it)
PlateDocs ==
    {Doc(1, b, Polys(GridLoops(10, 10, 2, 20, 4, 1) \o (IF more THEN GridLoops(10, 50, 2, 20, 3, 1) ELSE <<>>),
                     <<0, 0>>)
               \o LineSquare(30, 30, 3) \o LineSquare(60, 60, 3)
               \o (IF whole THEN GappedSquare(100, 1, FALSE)
                   ELSE <<LineEnt(<<0, 0>>, <<100, 0>>), LineEnt(<<100, 1>>, <<100, 100>>)>>)) :
        b \in BOOLEAN, more \in BOOLEAN, whole \in BOOLEAN}

\* a sheet exported as three strips with six tiny loops
FragmentedDocs ==
    {Doc(1, b, Polys(<<Sq(0, 0, 100, 30), Sq(0, 35, 100, 30), Sq(0, 70, 100, 30)>>
                     \o GridLoops(10, 10, 2, 15, 6, 1), <<0, 0>>)) : b \in BOOLEAN}

\* a perforated sheet (95 holes on the general path) with a large hole holding an island
PerforatedDocs ==
    {Doc(1, TRUE, Polys(<<Sq(0, 0, 100, 100)>> \o GridLoops(4, 4, 2, 5, 19, 5)
                        \o <<Sq(30, 30, 40, 40), Sq(32, 32, 36, 36)>>
                        \o (IF small THEN <<Sq(4, 80, 6, 6), Sq(5, 81, 2, 2)>> ELSE <<>>),
                        <<0, 0>>)) : small \in BOOLEAN}

\* documents without a drawing: no entity at all, a LINE of no length, and drawings of
\* no height or no width (one LINE, two LINEs on one line)
DegenerateDocs ==
    {Doc(1, FALSE, <<>>)}
    \cup {Doc(1, b, [i \in 1..Len(ends) |-> LineEnt(Shift(ends[i], off)[1],
                                                    Shift(ends[i], off)[2])]) :
            b \in BOOLEAN, off \in Offsets,
            ends \in {<< <<<<5, 5>>, <<5, 5>>>> >>,
                      << <<<<0, 0>>, <<10, 0>>>> >>,
                      << <<<<0, 0>>, <<0, 4>>>>, <<<<0, 6>>, <<0, 10>>>> >>}}

\* drawings that are not closed: an open LWPOLYLINE along three sides of a square, two
\* LINEs meeting in a corner, and an LWPOLYLINE (open, closed) of three points on one
\* line with a LINE off that line
OpenDocs ==
    {Doc(1, b, ents) :
        b \in BOOLEAN,
        ents \in {<<[type |-> "LWPOLYLINE", closed |-> FALSE,
                     pts |-> <<<<0, 0>>, <<100, 0>>, <<100, 100>>, <<0, 100>>>>]>>,
                  <<LineEnt(<<0, 0>>, <<100, 0>>), LineEnt(<<100, 0>>, <<100, 100>>)>>}
                 \cup {<<[type |-> "LWPOLYLINE", closed |-> c,
                          pts |-> <<<<0, 0>>, <<5, 5>>, <<10, 10>>>>],
                         LineEnt(<<0, 10>>, <<3, 10>>)>> : c \in BOOLEAN}}

\* the four LINEs of a closed 10 x 10 square at the origin, on grids of 1, 2 and 8 steps
\* per unit
LineSquareDocs ==
    {Doc(u, b, LineSquare(0, 0, 10 * u)) : u \in {1, 2, 8}, b \in BOOLEAN}

\* the six tiny loops of the chained drawings
ChainTiny == <<Sq(34, 34, 2, 2), Sq(49, 34, 2, 2), Sq(64, 34, 2, 2),
               Sq(34, 64, 2, 2), Sq(49, 64, 2, 2), Sq(64, 64, 2, 2)>>

\* README 7.2 twice over: a 100 x 100 border and its duplicate inset by 1; inside, a
\* second contour with a duplicate of its own inset by 1, and six tiny loops in that.
\* The second contour is a cut-out of 50 x 50, or a further copy of the border.
ChainLoops(cutout) ==
    <<Sq(0, 0, 100, 100), Sq(1, 1, 98, 98)>>
    \o (IF cutout THEN <<Sq(25, 25, 50, 50), Sq(26, 26, 48, 48)>>
                  ELSE <<Sq(2, 2, 96, 96), Sq(3, 3, 94, 94)>>)
    \o ChainTiny

\* a 100 x 100 border, a contour of 98 x 84 inset by 1 and six tiny loops beside it
BesideLoops ==
    <<Sq(0, 0, 100, 100), Sq(1, 1, 98, 84)>>
    \o [i \in 1..6 |-> Sq(15 * i, 90, 2, 2)]

ChainDocs ==
    {Doc(1, b, Polys(ChainLoops(cutout), off)) :
        cutout \in BOOLEAN, off \in Offsets, b \in BOOLEAN}
    \cup {Doc(1, b, Polys(BesideLoops, <<0, 0>>)) : b \in BOOLEAN}

\* an angle bracket of two arms of length 10 * s and width s, from its outer corner
Angle(x, y, s) ==
    <<<<x, y>>, <<x + 10 * s, y>>, <<x + 10 * s, y + s>>, <<x + s, y + s>>,
      <<x + s, y + 10 * s>>, <<x, y + 10 * s>>>>

\* the bracket alone, and the bracket as a cut-out of a 30 x 30 plate
AngleDocs ==
    {Doc(1, b, Polys(<<Angle(0, 0, s)>>, off)) : s \in {1, 2}, off \in Offsets, b \in BOOLEAN}
    \cup {Doc(1, b, Polys(<<Sq(0, 0, 30, 30), Angle(5, 5, 1)>>, <<0, 0>>)) : b \in BOOLEAN}

\* a square of side 1 drawn as four LINEs on a grid of 50 steps per unit: two corners
\* meet exactly, at the two others the ends are 0.04 apart, 0.98 and 1.02, which is
\* more than the cleaner joins and falls on one key at 5e-2 only
SnapSquare ==
    << LineEnt(<<0, 0>>, <<49, 0>>), LineEnt(<<51, 0>>, <<51, 50>>),
       LineEnt(<<51, 50>>, <<0, 51>>), LineEnt(<<0, 49>>, <<0, 0>>) >>

SnapDocs == {Doc(50, b, SnapSquare) : b \in BOOLEAN}

Documents ==
    PseudoHoleDocs \cup CompoundDocs \cup SplitterDocs \cup GappedDocs \cup SparsePanelDocs
    \cup PackedPanelDocs \cup CornerDocs \cup OverlapDocs \cup NestingDocs
    \cup FarClusterDocs \cup PlateDocs \cup FragmentedDocs \cup PerforatedDocs
    \cup DegenerateDocs \cup OpenDocs \cup LineSquareDocs \cup ChainDocs \cup AngleDocs
    \cup SnapDocs

-----------------------------------------------------------------------------
(* Initial states, the feed-back of the output, the specification *)

\* the document as the parse worker posts it (preParsed): the contours moved to the origin
\* (parseDxfAsciiCnc in the worker); on the long panels, one cluster of closed
\* polylines, the cleaner changes nothing and the shift alone is computed
MaxCleanedEntities == 40

PreParsedOf(d) ==
    IF Len(d.ents) <= MaxCleanedEntities THEN parseDxfAsciiCnc(d.ents, FALSE, d.unit)
    ELSE normalizeContoursSimple(EntityContours(d.ents))

\* the page after its script has run, on a machine of `cores' hardware threads: no batch
\* under way, an empty scene, nothing selected (app.js lines 63 and 77)
PageIdle(cores) ==
    /\ cpuCores = cores
    /\ batch = "idle"
    /\ fileCount = 0
    /\ nextIndex = 0
    /\ workerItem = <<>>
    /\ tasks = <<>>
    /\ nextPartId = 1
    /\ partsGroup = <<>>
    /\ selectedPart = 0
    /\ pointerMoved = FALSE

\* dxfWorkerPool is null: no pool has been created
PoolNotCreated ==
    /\ dxfWorkerPool = [slots |-> <<>>, queue |-> <<>>, pending |-> {}, nextId |-> 1]
    /\ promises = <<>>
    /\ workers = <<>>
    /\ postLog = <<>>

\* no cache is looked at
CachesUntouched ==
    /\ cacheStore = <<>>
    /\ storeBefore = <<>>
    /\ trimmedBy = "none"

PageLoaded(cores) == PageIdle(cores) /\ PoolNotCreated /\ CachesUntouched

StartOf(u, backend, ents, r, first) ==
    /\ unit = u
    /\ entities = IF backend THEN <<>> ELSE ents
    /\ fromBackend = backend
    /\ parsed = IF backend THEN PreParsedOf([ents |-> ents, unit |-> u]) ELSE <<>>
    /\ pc = IF backend THEN "reparse" ELSE "parse"
    /\ rawLineArcMode = FALSE
    /\ closedLoops = <<>>
    /\ declaredClosedLoops = <<>>
    /\ allPoints = <<>>
    /\ segments = <<>>
    /\ openContours = <<>>
    /\ fallbackOpenShapes = <<>>
    /\ segmentLoops = <<>>
    /\ forceHull = FALSE
    /\ loops = <<>>
    /\ childrenByParent = <<>>
    /\ pseudoHoleSkipSet = {}
    /\ guard = 0
    /\ shapes = <<>>
    /\ densePath = FALSE
    /\ returned = "pending"
    /\ run = r
    /\ firstShapes = first
    /\ selectionPrimaryLoop = <<>>
    /\ reattachedLoops = {}
    /\ extractorRuns = <<>>
    /\ PageLoaded(1)

Init == \E d \in Documents : StartOf(d.unit, d.backend, d.ents, 1, <<>>)

\* the loops of the output, each outline followed by its holes
OutputLoops(shs) ==
    Flatten([k \in 1..Len(shs) |-> <<shs[k].outer>> \o shs[k].holes])

\* the largest output (in loops) that is imported a second time
RerunMaxLoops == 12

\* the output of a finished import saved as closed polylines and imported again
Rerun ==
    /\ pc = "done"
    /\ run = 1
    /\ returned = "true"
    /\ Len(shapes) > 0
    /\ Len(OutputLoops(shapes)) <= RerunMaxLoops
    /\ entities' = Polys(OutputLoops(shapes), <<0, 0>>)
    /\ fromBackend' = FALSE
    /\ parsed' = <<>>
    /\ pc' = "parse"
    /\ rawLineArcMode' = FALSE
    /\ closedLoops' = <<>>
    /\ declaredClosedLoops' = <<>>
    /\ allPoints' = <<>>
    /\ segments' = <<>>
    /\ openContours' = <<>>
    /\ fallbackOpenShapes' = <<>>
    /\ segmentLoops' = <<>>
    /\ forceHull' = FALSE
    /\ loops' = <<>>
    /\ childrenByParent' = <<>>
    /\ pseudoHoleSkipSet' = {}
    /\ guard' = 0
    /\ shapes' = <<>>
    /\ densePath' = FALSE
    /\ returned' = "pending"
    /\ run' = 2
    /\ firstShapes' = shapes
    /\ selectionPrimaryLoop' = <<>>
    /\ reattachedLoops' = {}
    /\ extractorRuns' = <<>>
    /\ UNCHANGED unit
    /\ UNCHANGED <<pageVars, poolVars, cacheVars>>

Next ==
    \/ ParseDxf
    \/ ReparseAndValidate
    \/ CollectContours
    \/ ExtractSegmentLoops
    \/ AssembleClosedLoops
    \/ BuildLoopRecords
    \/ InjectHull
    \/ DenseFastPath
    \/ ComputeHierarchy
    \/ FragmentedSheet
    \/ PseudoHolePass
    \/ AssembleShapesStep
    \/ FilterArtifacts
    \/ FinishImport
    \/ Rerun

Spec == Init /\ [][Next]_vars

-----------------------------------------------------------------------------
(* The page around the import: the batch of the file input, the parsers    *)
(* tried for each file, the scene and the selection.  A handler, and a     *)
(* promise continuation up to its next await, runs without interruption,   *)
(* so each is one step.                                                    *)

\* the largest batch, the most hardware threads and the most parts ever created
MaxFiles == 3
MaxCores == 3
MaxParts == 4

\* BACKEND_IMPORT_CONCURRENCY (line 79)
BackendImportConcurrency == Max2(1, cpuCores)

\* maxWorkers of runWithConcurrency (line 3712); Number(limit || 1) is 1 for limit 0
MaxWorkersOf(limit, n) == Max2(1, Min2(IF limit = 0 THEN 1 ELSE limit, n))

\* a file whose task has not been invoked
NewTask ==
    [pc |-> "new", invoked |-> 0, tried |-> <<>>, imported |-> FALSE, reported |-> FALSE]

\* task(list[current]) up to its first await: importSingleFileBackendPipeline posts the
\* file to /api/parse-dxf and awaits the response (lines 3747-3749, 3514-3522)
InvokeTask(t) ==
    [t EXCEPT !.pc = "fetch", !.invoked = @ + 1, !.tried = Append(@, "backend")]

\* a plausible slip: the turn takes the current index and leaves nextIndex as it was
WorkerTurnStale(w, st) ==
    [nextIndex  |-> st.nextIndex,
     workerItem |-> [st.workerItem EXCEPT
                        ![w] = IF st.nextIndex >= fileCount' THEN 0 ELSE st.nextIndex + 1],
     tasks      |-> IF st.nextIndex >= fileCount' THEN st.tasks
                    ELSE [st.tasks EXCEPT ![st.nextIndex + 1] = InvokeTask(@)]]

\* one turn of workerLoop (lines 3715-3722) in worker w, from the top of its `while' to
\* its await or its return: [nextIndex, workerItem, tasks]
WorkerTurn(w, st) ==
    [nextIndex  |-> st.nextIndex + 1,
     workerItem |-> [st.workerItem EXCEPT
                        ![w] = IF st.nextIndex >= fileCount' THEN 0 ELSE st.nextIndex + 1],
     tasks      |-> IF st.nextIndex >= fileCount' THEN st.tasks
                    ELSE [st.tasks EXCEPT ![st.nextIndex + 1] = InvokeTask(@)]]

\* the `for' loop that starts the workers (line 3725): workers from..maxWorkers in turn
RECURSIVE StartWorkers(_, _, _)
StartWorkers(from, maxWorkers, st) ==
    IF from > maxWorkers THEN st
    ELSE StartWorkers(from + 1, maxWorkers, WorkerTurn(from, st))

\* the state after st is installed; Promise.all (line 3726) resolves, and the handler
\* runs to its end, once every workerLoop has returned
Install(st) ==
    /\ nextIndex' = st.nextIndex
    /\ workerItem' = st.workerItem
    /\ tasks' = st.tasks
    /\ batch' = IF \A w \in 1..Len(st.workerItem) : st.workerItem[w] = 0
                THEN "resolved" ELSE "running"

\* the task of file i has settled with tasks[i] = done: its workerLoop takes its next turn
TaskSettles(i, done) ==
    LET w == CHOOSE v \in 1..Len(workerItem) : workerItem[v] = i
    IN  Install(WorkerTurn(w, [nextIndex |-> nextIndex, workerItem |-> workerItem,
                               tasks |-> [tasks EXCEPT ![i] = done]]))

\* the `change' handler of the file input (lines 3729-3747) for n chosen files, up to
\* the await of runWithConcurrency.  One batch is followed at a time: every call of
\* runWithConcurrency has a nextIndex and workers of its own.
FileInputChange(n) ==
    /\ batch # "running"
    /\ nextPartId + n <= MaxParts + 1
    /\ IF n = 0
       THEN UNCHANGED <<batch, fileCount, nextIndex, workerItem, tasks>>
       ELSE /\ fileCount' = n
            /\ Install(StartWorkers(1, MaxWorkersOf(BackendImportConcurrency, n),
                   [nextIndex  |-> 0,
                    workerItem |-> [w \in 1..MaxWorkersOf(BackendImportConcurrency, n) |-> 0],
                    tasks      |-> [i \in 1..n |-> NewTask]]))
    /\ UNCHANGED <<cpuCores, nextPartId, partsGroup, selectedPart, pointerMoved>>
    /\ UNCHANGED <<importVars, poolVars, cacheVars>>

\* importSingleFileBackendPipeline after the fetch (lines 3523-3548): the request failed
\* or was refused ("error"), the parse came back without contours ("empty"), or it came
\* back with contours ("parsed") and the file is read for the fallback text
BackendResponds(i, outcome) ==
    /\ batch = "running"
    /\ i \in 1..fileCount
    /\ tasks[i].pc = "fetch"
    /\ fileCount' = fileCount
    /\ IF outcome = "parsed"
       THEN /\ tasks' = [tasks EXCEPT ![i].pc = "read"]
            /\ UNCHANGED <<batch, nextIndex, workerItem>>
       ELSE TaskSettles(i, [tasks[i] EXCEPT !.pc = "done", !.reported = TRUE])
    /\ UNCHANGED <<cpuCores, nextPartId, partsGroup, selectedPart, pointerMoved>>
    /\ UNCHANGED <<importVars, poolVars, cacheVars>>

\* importSingleFileBackendPipeline after the file is read (lines 3550-3575) and
\* addDxfToScene (lines 3153-3392) with the backend's parse as preParsed:
\* importWithCncContours builds the meshes from preParsed without parsing ("meshes"),
\* returns false or throws; then DxfParser.parseSync parses the text, and throws
\* ("throws"), yields no closed shape ("none") or yields shapes ("shapes").  A part that
\* was built is added to the scene by finalizeImportedGroup (line 3141).
FileRead(i, text, cnc, lib) ==
    /\ batch = "running"
    /\ i \in 1..fileCount
    /\ tasks[i].pc = "read"
    /\ text = "" => lib # "shapes"
    /\ fileCount' = fileCount
    /\ LET built == cnc = "meshes" \/ lib = "shapes"
           done  == [tasks[i] EXCEPT
                        !.pc = "done",
                        !.tried = IF cnc = "meshes" THEN @ ELSE Append(@, "library"),
                        !.imported = built,
                        !.reported = ~built]
       IN  /\ TaskSettles(i, done)
           /\ partsGroup' = IF built THEN Append(partsGroup, nextPartId) ELSE partsGroup
           /\ nextPartId' = IF built THEN nextPartId + 1 ELSE nextPartId
    /\ UNCHANGED <<cpuCores, selectedPart, pointerMoved>>
    /\ UNCHANGED <<importVars, poolVars, cacheVars>>

\* a plausible slip: clearSelection() drops the outline and keeps selectedPart
clearSelectionKept == selectedPart

\* clearSelection() (lines 868-894): the value of selectedPart after it
clearSelection == 0

\* setSelectedPart(part) (lines 947-959): the value of selectedPart after it
setSelectedPart(part) ==
    IF selectedPart = part THEN selectedPart
    ELSE IF part = 0 THEN clearSelection
    ELSE part

\* the pointerdown handler (lines 985-989)
PointerDown ==
    /\ pointerMoved' = FALSE
    /\ UNCHANGED <<cpuCores, batch, fileCount, nextIndex, workerItem, tasks, nextPartId,
                   partsGroup, selectedPart>>
    /\ UNCHANGED <<importVars, poolVars, cacheVars>>

\* the pointermove handler (lines 991-995); far: more than 3 px from the pointerdown
PointerMove(far) ==
    /\ pointerMoved' = (pointerMoved \/ far)
    /\ UNCHANGED <<cpuCores, batch, fileCount, nextIndex, workerItem, tasks, nextPartId,
                   partsGroup, selectedPart>>
    /\ UNCHANGED <<importVars, poolVars, cacheVars>>

\* the pointerup handler (lines 997-1002) and pickPartAtPointer (lines 969-983): `busy'
\* is transformControls.dragging or .axis, `hit' the part under the pointer, 0 for none
PointerUp(busy, hit) ==
    /\ hit = 0 \/ \E k \in 1..Len(partsGroup) : partsGroup[k] = hit
    /\ selectedPart' = IF pointerMoved \/ busy THEN selectedPart ELSE setSelectedPart(hit)
    /\ UNCHANGED <<cpuCores, batch, fileCount, nextIndex, workerItem, tasks, nextPartId,
                   partsGroup, pointerMoved>>
    /\ UNCHANGED <<importVars, poolVars, cacheVars>>

\* the keydown handler (lines 1006-1025); tag is document.activeElement.tagName
KeyDown(key, tag) ==
    /\ IF key = "Escape"
       THEN /\ selectedPart' = clearSelection
            /\ UNCHANGED partsGroup
       ELSE IF key \notin {"Delete", "Backspace"} \/ selectedPart = 0
                \/ tag \in {"INPUT", "TEXTAREA"}
       THEN UNCHANGED <<selectedPart, partsGroup>>
       ELSE /\ selectedPart' = clearSelection
            /\ partsGroup' = SelectSeq(partsGroup, LAMBDA p : p # selectedPart)
    /\ UNCHANGED <<cpuCores, batch, fileCount, nextIndex, workerItem, tasks, nextPartId,
                   pointerMoved>>
    /\ UNCHANGED <<importVars, poolVars, cacheVars>>

\* the click handler of the clear button (lines 3803-3812)
ClearClick ==
    /\ selectedPart' = clearSelection
    /\ partsGroup' = <<>>
    /\ UNCHANGED <<cpuCores, batch, fileCount, nextIndex, workerItem, tasks, nextPartId,
                   pointerMoved>>
    /\ UNCHANGED <<importVars, poolVars, cacheVars>>

\* the page is loaded with no import under way
PageInit ==
    /\ \E cores \in 1..MaxCores : PageLoaded(cores)
    /\ unit = 1
    /\ pc = "done"
    /\ entities = <<>>
    /\ fromBackend = FALSE
    /\ parsed = <<>>
    /\ rawLineArcMode = FALSE
    /\ closedLoops = <<>>
    /\ declaredClosedLoops = <<>>
    /\ allPoints = <<>>
    /\ segments = <<>>
    /\ openContours = <<>>
    /\ fallbackOpenShapes = <<>>
    /\ segmentLoops = <<>>
    /\ forceHull = FALSE
    /\ loops = <<>>
    /\ childrenByParent = <<>>
    /\ pseudoHoleSkipSet = {}
    /\ guard = 0
    /\ shapes = <<>>
    /\ densePath = FALSE
    /\ returned = "pending"
    /\ run = 2
    /\ firstShapes = <<>>
    /\ selectionPrimaryLoop = <<>>
    /\ reattachedLoops = {}
    /\ extractorRuns = <<>>

PageNext ==
    \/ \E n \in 0..MaxFiles : FileInputChange(n)
    \/ \E i \in 1..MaxFiles : \E outcome \in {"error", "empty", "parsed"} :
           BackendResponds(i, outcome)
    \/ \E i \in 1..MaxFiles : \E text \in {"", "dxf"} :
           \E cnc \in {"meshes", "false", "throws"} :
               \E lib \in {"throws", "none", "shapes"} : FileRead(i, text, cnc, lib)
    \/ PointerDown
    \/ \E far \in BOOLEAN : PointerMove(far)
    \/ \E busy \in BOOLEAN : \E hit \in 0..MaxParts : PointerUp(busy, hit)
    \/ \E key \in {"Escape", "Delete", "Backspace", "Enter"} :
           \E tag \in {"BODY", "INPUT", "TEXTAREA"} : KeyDown(key, tag)
    \/ ClearClick

PageSpec == PageInit /\ [][PageNext]_vars

-----------------------------------------------------------------------------
(* The two loop finders on their own: extractClosedLoopsFromSegments and     *)
(* stitchClosedLoopsFromOpenContours applied to segments and open contours   *)
(* drawn from small sets, at each of the tolerances importWithCncContours    *)
(* passes them.                                                              *)

\* the most segments and the most open contours of an input
MaxSegments == 3
MaxContours == 2

FinderPoints == {<<0, 0>>, <<1, 0>>, <<50, 0>>, <<0, 50>>, <<50, 50>>}

FinderSegments ==
    {s \in [a : FinderPoints, b : FinderPoints] : s.a # s.b}

\* open contours of two or three different points
FinderContours ==
    {c \in [1..2 -> FinderPoints] \cup [1..3 -> FinderPoints] :
        \A i \in 1..Len(c) : \A j \in 1..Len(c) : i # j => c[i] # c[j]}

\* the tolerances of the extractor (lines 3005-3010) and the bounds of stitchTol
\* (line 3014), by name
ExtractorEps == {"1e-4", "1e-2", "5e-2"}

StitcherTols == {"0.05", "0.6"}

EpsNum(name) == IF name = "5e-2" THEN 5 ELSE 1

EpsDen(name) == IF name = "1e-4" THEN 10000 ELSE 100

TolNamed(name, u) == IF name = "0.05" THEN TolOf(5 * u, 100) ELSE TolOf(6 * u, 10)

RECURSIVE WalksFrom(_, _, _)
\* the outer `for i' loop of extractClosedLoopsFromSegments, with the edges each
\* emitted loop marked as used: a sequence of [path, edges]
WalksFrom(edges, i, used) ==
    IF i > Len(edges) THEN <<>>
    ELSE IF used[i] THEN WalksFrom(edges, i + 1, used)
    ELSE LET Emit(w) ==
                 (IF w.closed /\ Len(w.path) >= 3
                  THEN <<[path  |-> w.path,
                          edges |-> {k \in 1..Len(edges) : w.used[k] /\ ~used[k]} \cup {i}]>>
                  ELSE <<>>)
                 \o WalksFrom(edges, i + 1, w.used)
         IN  Emit(WalkLoop(edges, edges[i].aKey, [used EXCEPT ![i] = TRUE],
                           <<edges[i].a, edges[i].b>>, edges[i].aKey, edges[i].bKey, 0))

RECURSIVE ChainsFrom(_, _, _, _, _)
\* the `for baseIdx' loop of stitchClosedLoopsFromOpenContours, with the chain each
\* emitted loop was compacted from and the pool items it took: [loop, chain, items]
ChainsFrom(pool, baseIdx, used, tol, dedupTol) ==
    IF baseIdx > Len(pool) THEN <<>>
    ELSE IF used[baseIdx] THEN ChainsFrom(pool, baseIdx + 1, used, tol, dedupTol)
    ELSE LET Emit(loop, g) ==
                 (IF Len(loop) >= 3
                  THEN <<[loop  |-> loop, chain |-> g.chain,
                          items |-> {k \in 1..Len(pool) : g.used[k] /\ ~used[k]}
                                    \cup {baseIdx}]>>
                  ELSE <<>>)
                 \o ChainsFrom(pool, baseIdx + 1, g.used, tol, dedupTol)
             Grown(g) == Emit(compactLoopPoints(g.chain, dedupTol), g)
         IN  Grown(GrowChain(pool[baseIdx], pool, [used EXCEPT ![baseIdx] = TRUE], tol))

\* the pool of stitchClosedLoopsFromOpenContours (lines 1874-1878)
StitchPool(contours, dedupTol) ==
    SelectSeq([i \in 1..Len(contours) |-> compactLoopPoints(contours[i], dedupTol)],
              LAMBDA pts : Len(pts) >= 2)

\* the import variables that the loop finders do not touch
FinderIdle ==
    /\ entities = <<>>
    /\ fromBackend = FALSE
    /\ parsed = <<>>
    /\ rawLineArcMode = FALSE
    /\ closedLoops = <<>>
    /\ declaredClosedLoops = <<>>
    /\ allPoints = <<>>
    /\ fallbackOpenShapes = <<>>
    /\ forceHull = FALSE
    /\ loops = <<>>
    /\ childrenByParent = <<>>
    /\ pseudoHoleSkipSet = {}
    /\ guard = 0
    /\ shapes = <<>>
    /\ densePath = FALSE
    /\ returned = "pending"
    /\ run = 1
    /\ firstShapes = <<>>
    /\ selectionPrimaryLoop = <<>>
    /\ reattachedLoops = {}

\* segments for the extractor, or open contours for the stitcher
\* The grid has 50 steps per drawing unit, so that 0 and 0.02 share a key at 5e-2 and
\* at no finer tolerance.
FinderInit ==
    /\ unit = 50
    /\ segmentLoops = <<>>
    /\ extractorRuns = <<>>
    /\ FinderIdle
    /\ PageLoaded(1)
    /\ \/ /\ pc = "segments"
          /\ openContours = <<>>
          /\ \E n \in 1..MaxSegments : segments \in [1..n -> FinderSegments]
       \/ /\ pc = "contours"
          /\ segments = <<>>
          /\ \E n \in 1..MaxContours : openContours \in [1..n -> FinderContours]

\* extractClosedLoopsFromSegments(segments, eps)
ExtractOnly(eps) ==
    /\ pc = "segments"
    /\ segmentLoops' = extractClosedLoopsFromSegments(segments, EpsNum(eps), EpsDen(eps), unit)
    /\ extractorRuns' = <<eps>>
    /\ pc' = "extracted"
    /\ UNCHANGED <<unit, entities, fromBackend, parsed, rawLineArcMode, closedLoops,
                   declaredClosedLoops, allPoints, segments, openContours,
                   fallbackOpenShapes, forceHull, loops, childrenByParent,
                   pseudoHoleSkipSet, guard, shapes, densePath, returned, run, firstShapes,
                   selectionPrimaryLoop, reattachedLoops>>
    /\ UNCHANGED <<pageVars, poolVars, cacheVars>>

\* stitchClosedLoopsFromOpenContours(openContours, tol)
StitchOnly(tol) ==
    /\ pc = "contours"
    /\ segmentLoops' = stitchClosedLoopsFromOpenContours(openContours, TolNamed(tol, unit), unit)
    /\ extractorRuns' = <<tol>>
    /\ pc' = "stitched"
    /\ UNCHANGED <<unit, entities, fromBackend, parsed, rawLineArcMode, closedLoops,
                   declaredClosedLoops, allPoints, segments, openContours,
                   fallbackOpenShapes, forceHull, loops, childrenByParent,
                   pseudoHoleSkipSet, guard, shapes, densePath, returned, run, firstShapes,
                   selectionPrimaryLoop, reattachedLoops>>
    /\ UNCHANGED <<pageVars, poolVars, cacheVars>>

FinderNext ==
    \/ \E eps \in ExtractorEps : ExtractOnly(eps)
    \/ \E tol \in StitcherTols : StitchOnly(tol)

FinderSpec == FinderInit /\ [][FinderNext]_vars

-----------------------------------------------------------------------------
(* The DXF worker pool: createDxfWorkerPool (lines 98-201), with the workers of    *)
(* dxf-worker.js around it.  A Worker is "loading" until it has run its script,     *)
(* "running" once it handles messages, "failed" when the script could not be loaded *)
(* or evaluated (its error event fires and no message is ever handled), and         *)
(* "terminated" after terminate(), which also discards the replies not yet          *)
(* delivered.                                                                       *)

\* the most slots of a pool and the most jobs submitted to it
MaxSlots == 2
MaxJobs == 3

\* resolve or reject called on the promise of job id: the first call settles it
Settle(ps, id, outcome) ==
    [ps EXCEPT ![id] = [state |-> IF @.state = "pending" THEN outcome ELSE @.state,
                        calls |-> @.calls + 1]]

\* the jobs posted to slot s so far whose promise is still pending
UnsettledAt(st, s) ==
    {st.postLog[k].id : k \in {n \in 1..Len(st.postLog) :
                                  /\ st.postLog[n].slot = s
                                  /\ st.promises[st.postLog[n].id].state = "pending"}}

RECURSIVE dispatchFrom(_, _)
\* dispatch(), from slot s on; st is [pool, promises, workers, postLog].  A message
\* posted to a Worker that failed or was terminated is dropped.
dispatchFrom(st, s) ==
    IF s > Len(st.pool.slots) THEN st
    ELSE IF st.pool.slots[s].busy THEN dispatchFrom(st, s + 1)
    ELSE IF Len(st.pool.queue) = 0 THEN st
    ELSE LET id == Head(st.pool.queue)
         IN  dispatchFrom(
                 [st EXCEPT !.pool.queue = Tail(@),
                            !.pool.slots[s] = [busy |-> TRUE, jobId |-> id],
                            !.pool.pending = @ \cup {id},
                            !.workers[s].inbox =
                                IF st.workers[s].status \in {"loading", "running"}
                                THEN Append(@, id) ELSE @,
                            !.postLog = Append(@, [slot |-> s, id |-> id,
                                                   unsettled |-> UnsettledAt(st, s)])],
                 s + 1)

dispatch(st) == dispatchFrom(st, 1)

\* handleSettled(slot, id, ok, payload), jobId 0 standing for null
handleSettled(st, s, id, ok) ==
    LET freed == [st EXCEPT !.pool.pending = @ \ {id},
                            !.pool.slots[s] = [busy |-> FALSE, jobId |-> 0]]
    IN  IF id \notin st.pool.pending THEN dispatch(freed)
        ELSE dispatch([freed EXCEPT !.promises =
                           Settle(@, id, IF ok THEN "resolved" ELSE "rejected")])

\* the pool and what is around it, as one value
PoolState ==
    [pool |-> dxfWorkerPool, promises |-> promises, workers |-> workers,
     postLog |-> postLog]

\* the pool variables take the fields of st
PoolBecomes(st) ==
    /\ dxfWorkerPool' = st.pool
    /\ promises' = st.promises
    /\ workers' = st.workers
    /\ postLog' = st.postLog

RECURSIVE RejectAll(_, _)
\* reject called on every job of the sequence ids
RejectAll(ps, ids) ==
    IF Len(ids) = 0 THEN ps ELSE RejectAll(Settle(ps, Head(ids), "rejected"), Tail(ids))

RECURSIVE Ascending(_)
\* the members of a set of job ids, ascending (the insertion order of `pending')
Ascending(ids) ==
    IF ids = {} THEN <<>>
    ELSE LET m == CHOOSE x \in ids : \A y \in ids : x <= y
         IN  <<m>> \o Ascending(ids \ {m})

\* no document is being imported
NothingImported ==
    /\ unit = 1
    /\ pc = "done"
    /\ segments = <<>>
    /\ openContours = <<>>
    /\ segmentLoops = <<>>
    /\ extractorRuns = <<>>
    /\ FinderIdle

\* createDxfWorkerPool(count): the slots idle, every Worker loading its script; nothing
\* is imported meanwhile
PoolInit ==
    /\ NothingImported
    /\ CachesUntouched
    /\ \E cores \in 1..MaxSlots :
           /\ PageIdle(cores)
           /\ dxfWorkerPool =
                  [slots   |-> [s \in 1..cores |-> [busy |-> FALSE, jobId |-> 0]],
                   queue   |-> <<>>,
                   pending |-> {},
                   nextId  |-> 1]
           /\ workers = [s \in 1..cores |->
                            [status |-> "loading", inbox |-> <<>>, outbox |-> <<>>]]
    /\ promises = <<>>
    /\ postLog = <<>>

\* runParse(text): the job queued under the next id, then dispatch()
RunParse ==
    /\ Len(dxfWorkerPool.slots) > 0
    /\ dxfWorkerPool.nextId <= MaxJobs
    /\ PoolBecomes(dispatch([PoolState EXCEPT
                                 !.pool.nextId = @ + 1,
                                 !.pool.queue = Append(@, dxfWorkerPool.nextId),
                                 !.promises = Append(@, [state |-> "pending", calls |-> 0])]))
    /\ UNCHANGED <<importVars, pageVars, cacheVars>>

\* self.onmessage of dxf-worker.js: the Worker of slot s parses the text of its next
\* message and posts one reply, ok or not
WorkerParses(s, ok) ==
    /\ s \in 1..Len(workers)
    /\ workers[s].status \in {"loading", "running"}
    /\ Len(workers[s].inbox) > 0
    /\ workers' = [workers EXCEPT ![s] = [status |-> "running",
                                          inbox  |-> Tail(@.inbox),
                                          outbox |-> Append(@.outbox,
                                                            [id |-> Head(@.inbox), ok |-> ok])]]
    /\ UNCHANGED <<dxfWorkerPool, promises, postLog, importVars, pageVars, cacheVars>>

\* worker.onmessage of slot s: the next reply of its Worker is delivered
WorkerReplies(s) ==
    /\ s \in 1..Len(workers)
    /\ Len(workers[s].outbox) > 0
    /\ PoolBecomes(handleSettled([PoolState EXCEPT !.workers[s].outbox = Tail(@)],
                                 s, Head(workers[s].outbox).id, Head(workers[s].outbox).ok))
    /\ UNCHANGED <<importVars, pageVars, cacheVars>>

\* the script of the Worker of slot s fails to load, and worker.onerror runs: the job of
\* the slot is rejected, or the slot is marked idle
WorkerFails(s) ==
    /\ s \in 1..Len(workers)
    /\ workers[s].status = "loading"
    /\ LET failed == [PoolState EXCEPT !.workers[s] =
                          [status |-> "failed", inbox |-> <<>>, outbox |-> <<>>]]
       IN  PoolBecomes(IF dxfWorkerPool.slots[s].jobId # 0
                       THEN handleSettled(failed, s, dxfWorkerPool.slots[s].jobId, FALSE)
                       ELSE [failed EXCEPT !.pool.slots[s] = [busy |-> FALSE, jobId |-> 0]])
    /\ UNCHANGED <<importVars, pageVars, cacheVars>>

\* terminate(): every Worker terminated and every slot idle, the pending jobs and then
\* the queued jobs rejected
Terminate ==
    /\ Len(dxfWorkerPool.slots) > 0
    /\ dxfWorkerPool' =
           [dxfWorkerPool EXCEPT
               !.slots = [s \in 1..Len(@) |-> [busy |-> FALSE, jobId |-> 0]],
               !.pending = {},
               !.queue = <<>>]
    /\ workers' = [s \in 1..Len(workers) |->
                      [status |-> "terminated", inbox |-> <<>>, outbox |-> <<>>]]
    /\ promises' = RejectAll(promises, Ascending(dxfWorkerPool.pending) \o dxfWorkerPool.queue)
    /\ UNCHANGED <<postLog, importVars, pageVars, cacheVars>>

PoolNext ==
    \/ RunParse
    \/ \E s \in 1..MaxSlots : \E ok \in BOOLEAN : WorkerParses(s, ok)
    \/ \E s \in 1..MaxSlots : WorkerReplies(s)
    \/ \E s \in 1..MaxSlots : WorkerFails(s)
    \/ Terminate

PoolSpec == PoolInit /\ [][PoolNext]_vars

\* The event loop delivers every message: a Worker that runs handles the messages posted
\* to it, and its replies reach worker.onmessage.  Nothing obliges the page to submit
\* jobs or to call terminate().
PoolFairSpec ==
    /\ PoolSpec
    /\ \A s \in 1..MaxSlots : WF_vars(\E ok \in BOOLEAN : WorkerParses(s, ok))
    /\ \A s \in 1..MaxSlots : WF_vars(WorkerReplies(s))

-----------------------------------------------------------------------------
(* The persistent caches: trimPersistentParsedCache (lines 358-398) and           *)
(* trimPersistentMeshCache (lines 654-693) applied to object stores drawn from    *)
(* small sets.  A record is [key, updatedAt, approxBytes]; the limits are scaled  *)
(* to stores of a few records.                                                    *)

\* DXF_PARSE_CACHE_MAX_ENTRIES, DXF_PARSE_CACHE_MAX_BYTES, DXF_MESH_CACHE_MAX_ENTRIES and
\* DXF_MESH_CACHE_MAX_BYTES, scaled: the mesh cache holds fewer and larger records
ParseCacheMaxEntries == 3
ParseCacheMaxBytes == 5
MeshCacheMaxEntries == 2
MeshCacheMaxBytes == 7

\* the most records of a store, the latest updatedAt and the largest approxBytes
MaxStored == 4
MaxUpdatedAt == 3
MaxApproxBytes == 3

RECURSIVE NewestFirst(_)
\* all.slice().sort((a, b) => b.updatedAt - a.updatedAt): the sort is stable, so records
\* of the same updatedAt keep the order of the store
NewestFirst(all) ==
    IF Len(all) = 0 THEN <<>>
    ELSE LET k == CHOOSE i \in 1..Len(all) :
                      /\ \A j \in 1..Len(all) : all[j].updatedAt <= all[i].updatedAt
                      /\ \A j \in 1..(i - 1) : all[j].updatedAt < all[i].updatedAt
         IN  <<all[k]>> \o NewestFirst(SubSeq(all, 1, k - 1) \o SubSeq(all, k + 1, Len(all)))

RECURSIVE SumBytes(_)
SumBytes(recs) ==
    IF Len(recs) = 0 THEN 0 ELSE Head(recs).approxBytes + SumBytes(Tail(recs))

RECURSIVE EvictForBytes(_, _, _, _, _)
\* the loop over the sorted records from the oldest (lines 378-385): a record already
\* marked is passed over and its bytes stay in totalBytes
EvictForBytes(sorted, i, totalBytes, keysToDelete, maxBytes) ==
    IF i < 1 \/ ~(totalBytes > maxBytes) THEN keysToDelete
    ELSE IF sorted[i].key \in keysToDelete
         THEN EvictForBytes(sorted, i - 1, totalBytes, keysToDelete, maxBytes)
    ELSE EvictForBytes(sorted, i - 1, totalBytes - sorted[i].approxBytes,
                       keysToDelete \cup {sorted[i].key}, maxBytes)

\* keysToDelete of a trim with the given limits
KeysToDelete(all, maxEntries, maxBytes) ==
    LET sorted == NewestFirst(all)
        overCount == IF Len(sorted) > maxEntries
                     THEN {sorted[i].key : i \in (maxEntries + 1)..Len(sorted)}
                     ELSE {}
    IN  EvictForBytes(sorted, Len(sorted), SumBytes(sorted), overCount, maxBytes)

\* the store after the trim
TrimmedStore(all, maxEntries, maxBytes) ==
    SelectSeq(all, LAMBDA rec : rec.key \notin KeysToDelete(all, maxEntries, maxBytes))

\* the stores: up to MaxStored records under the keys 1, 2, ...
CacheInit ==
    /\ NothingImported
    /\ PageIdle(1)
    /\ PoolNotCreated
    /\ \E n \in 1..MaxStored :
           \E stamps \in [1..n -> 1..MaxUpdatedAt] :
               \E sizes \in [1..n -> 1..MaxApproxBytes] :
                   cacheStore = [k \in 1..n |-> [key |-> k, updatedAt |-> stamps[k],
                                                 approxBytes |-> sizes[k]]]
    /\ storeBefore = <<>>
    /\ trimmedBy = "none"

\* trimPersistentParsedCache(db)
TrimParsedCache ==
    /\ trimmedBy = "none"
    /\ storeBefore' = cacheStore
    /\ cacheStore' = TrimmedStore(cacheStore, ParseCacheMaxEntries, ParseCacheMaxBytes)
    /\ trimmedBy' = "parsed"
    /\ UNCHANGED <<importVars, pageVars, poolVars>>

\* trimPersistentMeshCache(db)
TrimMeshCache ==
    /\ trimmedBy = "none"
    /\ storeBefore' = cacheStore
    /\ cacheStore' = TrimmedStore(cacheStore, MeshCacheMaxEntries, MeshCacheMaxBytes)
    /\ trimmedBy' = "mesh"
    /\ UNCHANGED <<importVars, pageVars, poolVars>>

CacheNext == TrimParsedCache \/ TrimMeshCache

CacheSpec == CacheInit /\ [][CacheNext]_vars

-----------------------------------------------------------------------------
(* Properties of the returned shapes *)

\* buildShapesFromClosedLoops has returned: `shapes' is its result
ShapesReturned == pc \in {"finish", "done"}

\* the loop has exactly the four corners of the rectangle at (x, y) of size w x h
IsRect(l, x, y, w, h) == Len(l) = 4 /\ SeqToSet(l) = SeqToSet(Sq(x, y, w, h))

\* C1: every shape returned by buildShapesFromClosedLoops, by the general hierarchy
\* path and by the dense-perforated fast path alike, has an outer point list of signed
\* area > 0 and hole point lists of signed area < 0.
OrientationOfShapes ==
    ShapesReturned =>
        \A k \in 1..Len(shapes) :
            /\ polygonAreaSigned(shapes[k].outer) > 0
            /\ \A h \in 1..Len(shapes[k].holes) :
                   polygonAreaSigned(shapes[k].holes[h]) < 0

\* C1 witness: the dense fast path has returned a shape whose holes were drawn
\* counter-clockwise, so that they had to be turned
OrientationWitness ==
    /\ pc = "finish"
    /\ densePath
    /\ Len(shapes) = 1
    /\ Len(shapes[1].holes) >= DenseMinHoles
    /\ \A h \in 1..Len(shapes[1].holeIdx) :
           polygonAreaSigned(loops[shapes[1].holeIdx[h]].openPts) > 0

\* C2: for every returned shape and every hole of it, the hole loop's interior sample
\* lies strictly inside the shape's outer polygon (inside and on no edge), whether the
\* hole was assigned by the hierarchy, re-attached by the pseudo-hole normalizer or
\* chosen by the dense fast path.
HoleSamplesInsideOuter ==
    ShapesReturned =>
        \A k \in 1..Len(shapes) :
            \A h \in 1..Len(shapes[k].holeIdx) :
                pointInPolygonStrict(loops[shapes[k].holeIdx[h]].sample,
                                     loops[shapes[k].loopIdx].closedPts, unit)

\* C3: immediately after computeLoopHierarchy, whenever loop i is the parent of a loop
\* j # i, areaAbs(i) > areaAbs(j) and the sample of j lies strictly inside the closed
\* point list of i (a sample on an edge counts as outside).
HierarchyParents ==
    pc = "fragmented" =>
        \A i, j \in 1..Len(loops) :
            (i # j /\ loops[j].parent = i) =>
                /\ loops[i].areaAbs > loops[j].areaAbs
                /\ pointInPolygonStrict(loops[j].sample, loops[i].closedPts, unit)

\* C3 witness: the hierarchy has just been computed, some loop has got a parent, and a
\* loop whose sample lies on an edge of a larger loop has not got that loop as parent
HierarchyWitness ==
    /\ pc = "fragmented"
    /\ \E j \in 1..Len(loops) : loops[j].parent >= 1
    /\ \E i, j \in 1..Len(loops) :
           /\ loops[i].areaAbs > loops[j].areaAbs
           /\ OnSomeEdge(loops[j].sample, loops[i].closedPts, 1, unit)
           /\ loops[j].parent # i

\* the closed loops of README 7.2: a 100 x 100 square, a 98 x 98 square inset by 1, and
\* eight tiny loops of diameter 2 strictly inside the inner square
PseudoHoleInput ==
    /\ Len(closedLoops) = 10
    /\ \E o, n \in 1..10 :
           /\ IsRect(closedLoops[o], 0, 0, 100 * unit, 100 * unit)
           /\ IsRect(closedLoops[n], unit, unit, 98 * unit, 98 * unit)
           /\ \A t \in (1..10) \ {o, n} :
                  LET b == BoundsOf(closedLoops[t])
                  IN  /\ b.maxX - b.minX = 2 * unit
                      /\ b.maxY - b.minY = 2 * unit
                      /\ b.minX > unit /\ b.maxX < 99 * unit
                      /\ b.minY > unit /\ b.maxY < 99 * unit

\* C4: for the 100 x 100 square, the 98 x 98 square inset by 1 and 8 tiny loops inside
\* it, the inner square is marked as a skipped pseudo-hole, the 8 tiny loops are
\* re-attached to the outer square, and exactly one shape is returned: the 100 x 100
\* square with exactly 8 holes.
PseudoHoleSkipped ==
    (ShapesReturned /\ PseudoHoleInput) =>
        /\ Len(shapes) = 1
        /\ IsRect(shapes[1].outer, 0, 0, 100 * unit, 100 * unit)
        /\ Len(shapes[1].holes) = 8
        /\ \E n \in pseudoHoleSkipSet :
               IsRect(loops[n].openPts, unit, unit, 98 * unit, 98 * unit)
        /\ \A h \in 1..Len(shapes[1].holeIdx) :
               LET t == loops[shapes[1].holeIdx[h]]
               IN  /\ t.parent = shapes[1].loopIdx
                   /\ t.bbox.maxX - t.bbox.minX = 2 * unit
                   /\ t.depth = 1

\* C4 witness: the import of that drawing has returned, and a pseudo-hole pass did
\* skip a container
PseudoHoleWitness ==
    /\ pc = "finish"
    /\ PseudoHoleInput
    /\ pseudoHoleSkipSet # {}
    /\ Len(shapes) = 1

\* the closed loops of README 7.4: a square and, strictly inside it, the perimeter of a
\* 10 x 10 square traced twice in one polyline, from its lower left corner
\* counter-clockwise; t is the index of the traced loop
TwiceTracedInput(t) ==
    /\ Len(closedLoops) = 2
    /\ t \in 1..2
    /\ Len(closedLoops[t]) = 8
    /\ LET b == BoundsOf(closedLoops[t])
           o == BoundsOf(closedLoops[3 - t])
       IN  /\ closedLoops[t] = Sq(b.minX, b.minY, 10 * unit, 10 * unit)
                               \o Sq(b.minX, b.minY, 10 * unit, 10 * unit)
           /\ IsRect(closedLoops[3 - t], o.minX, o.minY, o.maxX - o.minX, o.maxY - o.minY)
           /\ o.minX < b.minX /\ b.maxX < o.maxX
           /\ o.minY < b.minY /\ b.maxY < o.maxY

\* C5: the perimeter of a 10 x 10 square traced twice, strictly inside a larger square,
\* is reduced by splitCompoundLoopCandidates to a single 10 x 10 loop, and the pipeline
\* returns one shape, the larger square, with exactly one hole.
TwiceTracedOneHole ==
    \A t \in 1..2 :
        (ShapesReturned /\ TwiceTracedInput(t)) =>
            LET b     == BoundsOf(closedLoops[t])
                o     == BoundsOf(closedLoops[3 - t])
                split == splitCompoundLoopCandidates(closedLoops[t], unit)
            IN  /\ Len(split) = 1
                /\ IsRect(split[1], b.minX, b.minY, 10 * unit, 10 * unit)
                /\ Len(shapes) = 1
                /\ IsRect(shapes[1].outer, o.minX, o.minY, o.maxX - o.minX, o.maxY - o.minY)
                /\ Len(shapes[1].holes) = 1
                /\ IsRect(shapes[1].holes[1], b.minX, b.minY, 10 * unit, 10 * unit)

\* C5 witness: that drawing has been imported and the splitter has left two records
TwiceTracedWitness ==
    /\ pc = "finish"
    /\ \E t \in 1..2 : TwiceTracedInput(t)
    /\ Len(loops) = 2
    /\ Len(shapes) = 1

\* the ends of the four LINEs around a square of side s whose adjacent ends are g apart
GappedEnds(s, g) ==
    { {<<0, 0>>, <<s - g, 0>>}, {<<s, 0>>, <<s, s - g>>},
      {<<s, s>>, <<g, s>>}, {<<0, s>>, <<0, g>>} }

\* the drawing is four LINEs around a square whose adjacent ends at every corner are
\* 0.5 units apart; the side of the square is the width of the drawing
GappedSquareInput ==
    /\ Len(parsed) = 1
    /\ unit % 2 = 0
    /\ declaredClosedLoops = <<>>
    /\ Len(openContours) = 4
    /\ \A i \in 1..4 : Len(openContours[i]) = 2
    /\ {{openContours[i][1], openContours[i][2]} : i \in 1..4}
           = GappedEnds(parsed[1].width, unit \div 2)

\* every vertex of the outline is within g of a corner of the square of side s, and
\* every corner has such a vertex
NearSquare(outline, s, g) ==
    /\ \A i \in 1..Len(outline) :
           \E c \in SeqToSet(Sq(0, 0, s, s)) : Dist2(outline[i], c) <= g * g
    /\ \A c \in SeqToSet(Sq(0, 0, s, s)) :
           \E i \in 1..Len(outline) : Dist2(outline[i], c) <= g * g

\* C6 as stated: for four LINEs forming a square of any side with ends 0.5 units apart
\* at every corner, extractClosedLoopsFromSegments at 1e-4 returns no loop and the
\* import produces exactly one closed square shape with no holes.
GappedSquareAnySide ==
    (ShapesReturned /\ GappedSquareInput) =>
        /\ extractClosedLoopsFromSegments(segments, 1, 10000, unit) = <<>>
        /\ Len(shapes) = 1
        /\ shapes[1].holes = <<>>
        /\ NearSquare(shapes[1].outer, parsed[1].width, unit \div 2)

\* C6 amended: extractClosedLoopsFromSegments at 1e-4 returns no loop; when the side is
\* at least 100 units (stitchTol = clamp(0.005 * side, 0.05, 0.6) >= 0.5) the import
\* produces exactly one shape with no holes, its outline within 0.5 units of the
\* square's corners; when the side is under 100 units it produces no shape.
GappedSquareStitched ==
    (ShapesReturned /\ GappedSquareInput) =>
        /\ extractClosedLoopsFromSegments(segments, 1, 10000, unit) = <<>>
        /\ IF parsed[1].width >= 100 * unit
           THEN /\ Len(shapes) = 1
                /\ shapes[1].holes = <<>>
                /\ NearSquare(shapes[1].outer, parsed[1].width, unit \div 2)
           ELSE shapes = <<>>

\* C6 witness: a gapped square of side exactly 100 units has been stitched into a shape
GappedSquareWitness ==
    /\ pc = "finish"
    /\ GappedSquareInput
    /\ parsed[1].width = 100 * unit
    /\ Len(segmentLoops) = 1
    /\ Len(shapes) = 1

\* the doubled centre of the bounding box of a loop
Centre2(l) ==
    LET b == BoundsOf(l)
    IN  <<b.minX + b.maxX, b.minY + b.maxY>>

\* the numbers of the non-empty set S are equally spaced
IsProgression(S) ==
    LET lo == CHOOSE v \in S : \A w \in S : v <= w
        hi == CHOOSE v \in S : \A w \in S : w <= v
    IN  \E p \in 1..(hi - lo + 1) : S = {lo + k * p : k \in 0..(Cardinality(S) - 1)}

\* the closed loops are a square covering the whole source bounding box (index o) and
\* equal small loops, each passing through no vertex twice, with pairwise distinct
\* centres on a regular grid strictly inside it
PanelInput(o) ==
    /\ Len(parsed) = 1
    /\ Len(closedLoops) >= 2
    /\ parsed[1].width = parsed[1].height
    /\ IsRect(closedLoops[o], 0, 0, parsed[1].width, parsed[1].height)
    /\ LET small == (1..Len(closedLoops)) \ {o}
           first == CHOOSE i \in small : TRUE
           c     == [i \in 1..Len(closedLoops) |-> Centre2(closedLoops[i])]
           from  == c[first]
       IN  /\ Cardinality(SeqToSet(closedLoops[first])) = Len(closedLoops[first])
           /\ \A i \in small :
                  /\ Len(closedLoops[i]) = Len(closedLoops[first])
                  /\ \A k \in 1..Len(closedLoops[i]) :
                         /\ 2 * (closedLoops[i][k][1] - closedLoops[first][k][1])
                                = c[i][1] - from[1]
                         /\ 2 * (closedLoops[i][k][2] - closedLoops[first][k][2])
                                = c[i][2] - from[2]
                         /\ 0 < closedLoops[i][k][1]
                         /\ closedLoops[i][k][1] < parsed[1].width
                         /\ 0 < closedLoops[i][k][2]
                         /\ closedLoops[i][k][2] < parsed[1].height
           /\ Cardinality({c[i] : i \in small}) = Cardinality(small)
           /\ {c[i] : i \in small} = {c[i][1] : i \in small} \X {c[i][2] : i \in small}
           /\ IsProgression({c[i][1] : i \in small})
           /\ IsProgression({c[i][2] : i \in small})

\* any two centres of the small loops differ, in x or in y, by at least the quantum of
\* the dense path, max(1e-4, min(0.25, 0.03 * the smaller side of a loop))
WellSeparated(o) ==
    LET small == (1..Len(closedLoops)) \ {o}
        b     == BoundsOf(closedLoops[CHOOSE i \in small : TRUE])
        minD  == Min2(b.maxX - b.minX, b.maxY - b.minY)
        quant == TolMax(TolOf(unit, 10000), TolMin(TolOf(25 * unit, 100), TolOf(3 * minD, 100)))
        c     == {Centre2(closedLoops[i]) : i \in small}
    IN  \A k \in 1..2 :
            \A v, w \in {p[k] : p \in c} :
                v < w => (w - v) * quant[2] >= 2 * quant[1]

\* one shape: the square with every small loop as a hole
PanelShape(o) ==
    /\ Len(shapes) = 1
    /\ IsRect(shapes[1].outer, 0, 0, parsed[1].width, parsed[1].height)
    /\ Len(shapes[1].holes) = Len(closedLoops) - 1
    /\ {SeqToSet(shapes[1].holes[h]) : h \in 1..Len(shapes[1].holes)}
           = {SeqToSet(closedLoops[i]) : i \in (1..Len(closedLoops)) \ {o}}

\* C7 as stated: for a square covering the source bounding box and N equal small loops
\* with pairwise distinct centres on a regular grid strictly inside it, the result is
\* one shape, the square with all N loops as holes, on the dense fast path
\* (N + 1 >= 220) as on the general path.
PanelAllHoles ==
    ShapesReturned =>
        \A o \in 1..Len(closedLoops) : PanelInput(o) => PanelShape(o)

\* C7 amended: the same, for loops any two of whose centres are, in x or in y, at least
\* the de-duplication quantum max(1e-4, min(0.25, 0.03 * loop size)) apart; loops closer
\* than that are merged by the dense fast path and kept by the general path.
PanelPathsAgree ==
    ShapesReturned =>
        \A o \in 1..Len(closedLoops) :
            (PanelInput(o) /\ WellSeparated(o)) => PanelShape(o)

\* C7 witness: the dense fast path has returned the shape of such a panel
PanelWitness ==
    /\ pc = "finish"
    /\ densePath
    /\ Len(closedLoops) >= DenseMinLoops
    /\ \E o \in 1..Len(closedLoops) : PanelInput(o) /\ WellSeparated(o)

\* b is a with another starting vertex
IsRotation(a, b) ==
    /\ Len(a) = Len(b)
    /\ \E r \in 0..(Len(a) - 1) :
           \A i \in 1..Len(a) : a[i] = b[((i - 1 + r) % Len(a)) + 1]

SameLoops(hs, gs) ==
    /\ Len(hs) = Len(gs)
    /\ \A h \in 1..Len(hs) : \E g \in 1..Len(gs) : IsRotation(hs[h], gs[g])
    /\ \A g \in 1..Len(gs) : \E h \in 1..Len(hs) : IsRotation(hs[h], gs[g])

SameShape(s, t) == IsRotation(s.outer, t.outer) /\ SameLoops(s.holes, t.holes)

SameShapes(a, b) ==
    /\ Len(a) = Len(b)
    /\ \A k \in 1..Len(a) : \E l \in 1..Len(b) : SameShape(a[k], b[l])
    /\ \A l \in 1..Len(b) : \E k \in 1..Len(a) : SameShape(a[k], b[l])

\* C8: importing the output again (every outer and every hole as a closed polyline)
\* gives the same shapes, the same outers each with the same holes, up to the starting
\* vertex of each loop.
RerunSameShapes ==
    (pc = "done" /\ run = 2) => SameShapes(shapes, firstShapes)

\* the loop's |signed area| divided by its bounding-box area exceeds 1.08
OverRatio(l) ==
    LET b == BoundsOf(l)
    IN  100 * Abs(polygonAreaSigned(l)) > 216 * (b.maxX - b.minX) * (b.maxY - b.minY)

\* the loop handed to splitCompoundLoopCandidates for closedLoops[i], and its sub-loops
SplitLoop(i) ==
    LET c == buildClosedPointList(closedLoops[i])
    IN  IF Len(c) < 4 THEN <<>> ELSE SubSeq(c, 1, Len(c) - 1)

SubLoopAreas(l) ==
    LET split == splitCompoundLoopCandidates(l, unit)
    IN  [k \in 1..Len(split) |-> Abs(polygonAreaSigned(split[k]))]

\* the loop is the perimeter of an axis-parallel rectangle traced k times
RectTraced(l, k) ==
    /\ k >= 2
    /\ Len(l) = 4 * k
    /\ LET b == BoundsOf(l)
       IN  /\ b.maxX > b.minX /\ b.maxY > b.minY
           /\ IsRect(SubSeq(l, 1, 4), b.minX, b.minY, b.maxX - b.minX, b.maxY - b.minY)
           /\ IsRotation(SubSeq(l, 1, 4),
                         Sq(b.minX, b.minY, b.maxX - b.minX, b.maxY - b.minY))
    /\ \A i \in 1..Len(l) : l[i] = l[((i - 1) % 4) + 1]

ShapeVertices ==
    UNION {SeqToSet(shapes[k].outer)
             \cup UNION {SeqToSet(shapes[k].holes[h]) : h \in 1..Len(shapes[k].holes)} :
           k \in 1..Len(shapes)}

\* C10: every vertex of every returned shape, outers and holes and an injected convex
\* hull included, has 0 <= x <= width and 0 <= y <= height for the width and height the
\* normalizer reported, and the normalized document has a point with x = 0 and a point
\* with y = 0.
ShapesWithinExtent ==
    Len(parsed) = 1 =>
        /\ \A v \in ShapeVertices :
               /\ 0 <= v[1] /\ v[1] <= parsed[1].width
               /\ 0 <= v[2] /\ v[2] <= parsed[1].height
        /\ \A k \in 1..2 :
               \E i \in 1..Len(parsed[1].contours) :
                   \E j \in 1..Len(parsed[1].contours[i].points) :
                       parsed[1].contours[i].points[j][k] = 0

\* C10 witness: a drawing placed away from the origin has been imported and one of its
\* shapes has an injected hull as outer
ExtentWitness ==
    /\ pc = "finish"
    /\ Len(parsed) = 1
    /\ \E i \in 1..Len(entities) : entities[i].pts[1][1] < 0 /\ entities[i].pts[1][2] > 0
    /\ \E k \in 1..Len(shapes) :
           /\ Len(shapes[k].holes) > 0
           /\ \A i \in 1..Len(closedLoops) :
                  SeqToSet(closedLoops[i]) # SeqToSet(shapes[k].outer)

\* the loops the hull fallback starts from: `loops' after the forced-hull block
HullFallbackInput ==
    LET src == SourceBBox(allPoints)
    IN  IF forceHull /\ src.has /\ Len(allPoints) >= 3
        THEN ForceHullLoops(loops, allPoints, src, unit) ELSE loops

\* among n >= 2 loops the largest strictly contains the interior samples of at least
\* min(3, n - 1) of the others, and its area is at least 6 x the second-largest area
\* and at least 0.002 x the source bounding-box area
StrongContainerExists(ls) ==
    /\ Len(ls) >= 2
    /\ LET o      == FirstMaxIdx(ls)
           others == (1..Len(ls)) \ {o}
       IN  /\ Cardinality({i \in others :
                              pointInPolygonStrict(ls[i].sample, ls[o].closedPts, unit)})
                  >= Min2(3, Len(ls) - 1)
           /\ \A i \in others : ls[o].areaAbs >= 6 * ls[i].areaAbs
           /\ 1000 * ls[o].areaAbs >= 2 * SourceBBox(allPoints).area2

\* C11: whenever a strong container contour exists among the loops, the hull-fallback
\* step adds no convex-hull loop: it leaves the loop set as it found it.
StrongContainerNoHull ==
    [][(pc = "hull" /\ StrongContainerExists(HullFallbackInput))
           => loops' = HullFallbackInput]_vars

\* the open contours of a parsed document that have at least two points
OpenContoursOf(p) ==
    {i \in 1..Len(p.contours) : ~p.contours[i].closed /\ Len(p.contours[i].points) >= 2}

\* the largest closed-contour area of a parsed document is below 0.02 x width x height
ClosedAreasSmall(p) ==
    \A i \in 1..Len(p.contours) :
        (p.contours[i].closed /\ Len(p.contours[i].points) >= 3) =>
            100 * Abs(polygonAreaSigned(p.contours[i].points)) < 4 * p.width * p.height

\* the document as the raw LINE/ARC parse returns it
RawParsed == parseDxfAsciiCnc(entities, TRUE, unit)

-----------------------------------------------------------------------------
(* Properties of the page *)

\* the order in which the parsers are to be tried
ParserOrder == <<"backend", "local", "library">>

\* C13: for each imported file the parsers are tried in the order backend, local JS CNC
\* parser, dxf-parser library, a later one exactly when every earlier one failed, and
\* the file is reported as not imported only after all three have failed: the parsers
\* tried for a finished file are a beginning of that order, and all three of them when
\* the file was reported as not imported.
ParsersTriedInOrder ==
    \A i \in 1..Len(tasks) :
        tasks[i].pc = "done" =>
            /\ tasks[i].tried = SubSeq(ParserOrder, 1, Len(tasks[i].tried))
            /\ (tasks[i].reported /\ ~tasks[i].imported) => tasks[i].tried = ParserOrder

\* the parsed document is empty: null, without contours, or of width or height <= 1e-6
\* (a width or height on the grid is 0 or at least one grid step)
EmptyDocument ==
    \/ Len(parsed) = 0
    \/ Len(parsed[1].contours) = 0
    \/ parsed[1].width <= 0
    \/ parsed[1].height <= 0

\* C14 as stated: importWithCncContours returns false, with no mesh in the group, for
\* an empty document, and the empty document is the only failure it returns.
OnlyEmptyDocumentFails ==
    pc = "done" =>
        /\ EmptyDocument => (returned = "false" /\ shapes = <<>>)
        /\ returned = "false" => EmptyDocument

\* C14 amended: importWithCncContours returns false, with no mesh in the group, for an
\* empty document; it returns false as well, and only then, when the document is not
\* empty and no mesh was built from it (no shape and no open contour that could be
\* closed automatically).
FailsWhenEmptyOrNoMesh ==
    pc = "done" =>
        /\ EmptyDocument =>
               (returned = "false" /\ shapes = <<>> /\ closedLoops = <<>> /\ loops = <<>>)
        /\ returned = "false" <=>
               (EmptyDocument \/ (shapes = <<>> /\ fallbackOpenShapes = <<>>))
        /\ returned \in {"true", "false"}

\* C14 witness: the import of a drawing of no height (one horizontal LINE) has
\* returned false
EmptyDocumentWitness ==
    /\ pc = "done"
    /\ returned = "false"
    /\ Len(parsed) = 1
    /\ Len(parsed[1].contours) >= 1
    /\ parsed[1].width > 0
    /\ parsed[1].height = 0

\* the document is the four LINEs (0,0)-(10,0), (10,0)-(10,10), (10,10)-(0,10),
\* (0,10)-(0,0)
FourLinesInput ==
    entities = <<LineEnt(<<0, 0>>, <<10 * unit, 0>>),
                 LineEnt(<<10 * unit, 0>>, <<10 * unit, 10 * unit>>),
                 LineEnt(<<10 * unit, 10 * unit>>, <<0, 10 * unit>>),
                 LineEnt(<<0, 10 * unit>>, <<0, 0>>)>>

\* C15: the four LINEs (0,0)-(10,0), (10,0)-(10,10), (10,10)-(0,10), (0,10)-(0,0) are
\* imported as exactly one shape, whose outer is the 4-vertex square in
\* counter-clockwise order and which has no holes.
FourLinesOneSquare ==
    (ShapesReturned /\ FourLinesInput) =>
        /\ Len(shapes) = 1
        /\ shapes[1].holes = <<>>
        /\ IsRotation(shapes[1].outer, Sq(0, 0, 10 * unit, 10 * unit))
        /\ polygonAreaSigned(shapes[1].outer) > 0
        /\ (pc = "done" => returned = "true")

\* C15 witness: the import of the four LINEs has returned, the LINEs having been joined
\* into one contour
FourLinesWitness ==
    /\ pc = "done"
    /\ FourLinesInput
    /\ Len(parsed) = 1
    /\ Len(parsed[1].contours) = 1
    /\ Len(shapes) = 1

\* the stored primary selection loop is the outline of an emitted shape of the largest area
IsLargestShapeOutline(l) ==
    \E k \in 1..Len(shapes) :
        /\ l = shapes[k].outer
        /\ \A j \in 1..Len(shapes) :
               Abs(polygonAreaSigned(shapes[j].outer)) <= Abs(polygonAreaSigned(shapes[k].outer))

\* the stored primary selection loop is the convex hull of all input points and not one
\* of the loops
HullStored ==
    /\ selectionPrimaryLoop # <<>>
    /\ \A k \in 1..Len(shapes) : selectionPrimaryLoop # shapes[k].outer
    /\ \A i \in 1..Len(closedLoops) : selectionPrimaryLoop # closedLoops[i]
    /\ selectionPrimaryLoop = convexHullFromPoints(allPoints)

InFlight == {i \in 1..Len(tasks) : tasks[i].pc \in {"fetch", "read"}}

\* C17: runWithConcurrency(items, limit, task), with limit the number of hardware threads,
\* invokes task exactly once for each item, never has more than min(limit, number of
\* items) invocations in flight, and its promise resolves only after every invocation
\* has completed.
EachItemOnceWithinLimit ==
    /\ \A i \in 1..Len(tasks) : tasks[i].invoked <= 1
    /\ \A i \in 1..Len(tasks) : tasks[i].invoked = 1 <=> tasks[i].pc # "new"
    /\ Cardinality(InFlight) <= Min2(cpuCores, fileCount)
    /\ batch = "resolved" =>
           /\ Len(tasks) = fileCount
           /\ \A i \in 1..fileCount : tasks[i].invoked = 1 /\ tasks[i].pc = "done"

\* C17 witness: a batch of more files than hardware threads has resolved, so that a
\* worker took a second item after its first had settled
BatchResolvedWitness ==
    /\ batch = "resolved"
    /\ fileCount > cpuCores
    /\ cpuCores >= 2
    /\ \A i \in 1..fileCount : tasks[i].invoked = 1


\* C18, the selection: after any sequence of pointer clicks, Escape, Delete and Backspace
\* key presses, clear-button clicks and import completions, selectedPart is null or a
\* part that is in partsGroup.
SelectedPartInScene ==
    selectedPart = 0 \/ \E k \in 1..Len(partsGroup) : partsGroup[k] = selectedPart

\* C18, the keys: a Delete or Backspace key press while a part is selected and the focus
\* is not in an INPUT or TEXTAREA removes exactly that part from partsGroup and leaves
\* nothing selected; an Escape key press leaves nothing selected and removes no part.
DeleteRemovesSelectedEscapeKeeps ==
    [][/\ (\E key \in {"Delete", "Backspace"} : \E tag \in {"BODY", "INPUT", "TEXTAREA"} :
              /\ KeyDown(key, tag)
              /\ selectedPart # 0
              /\ tag \notin {"INPUT", "TEXTAREA"})
          => /\ selectedPart' = 0
             /\ partsGroup' = SelectSeq(partsGroup, LAMBDA p : p # selectedPart)
             /\ Len(partsGroup') = Len(partsGroup) - 1
       /\ (\E tag \in {"BODY", "INPUT", "TEXTAREA"} : KeyDown("Escape", tag))
          => /\ selectedPart' = 0
             /\ partsGroup' = partsGroup]_vars

\* C18 witness: a part that was selected has been removed with others left in the scene,
\* and nothing is selected
DeletedPartWitness ==
    /\ selectedPart = 0
    /\ Len(partsGroup) >= 1
    /\ Len(partsGroup) < nextPartId - 1
    /\ \E p \in 1..(nextPartId - 1) :
           /\ \A k \in 1..Len(partsGroup) : partsGroup[k] # p
           /\ \E k \in 1..Len(partsGroup) : partsGroup[k] > p


\* C18: after any sequence of pointer clicks, key presses, clear-button clicks and import
\* completions, selectedPart is null or a part in partsGroup; Delete or Backspace with a
\* part selected and the focus outside INPUT and TEXTAREA removes exactly that part and
\* leaves nothing selected; Escape clears the selection and removes no part.
SelectionFollowsScene == []SelectedPartInScene /\ DeleteRemovesSelectedEscapeKeeps


-----------------------------------------------------------------------------
(* Properties of the pseudo-hole passes *)

\* the children a pass of normalizePseudoHoleContainers marks as skipped
SkippedByPass == pseudoHoleSkipSet' \ pseudoHoleSkipSet

\* C19 as stated: whenever normalizePseudoHoleContainers marks a child C of an
\* even-depth parent P as skipped, at the end of that pass every loop that was a child
\* of C has parent P and the parent of C is -1.
SkippedContainerDetached ==
    [][pc = "pseudo" =>
          \A c \in SkippedByPass :
              /\ loops[loops[c].parent].depth % 2 = 0
              /\ loops'[c].parent = -1
              /\ \A g \in 1..Len(loops) :
                     loops[g].parent = c => loops'[g].parent = loops[c].parent]_vars

\* C19 amended: whenever normalizePseudoHoleContainers marks a child C of an even-depth
\* parent P as skipped, at the end of that pass every loop that was a child of C has
\* parent P; the parent of C is -1 when C had at least one child, and is still P when
\* C had none.
SkippedContainerWithChildrenDetached ==
    [][pc = "pseudo" =>
          \A c \in SkippedByPass :
              /\ loops[loops[c].parent].depth % 2 = 0
              /\ loops'[c].parent =
                     IF \E g \in 1..Len(loops) : loops[g].parent = c
                     THEN -1 ELSE loops[c].parent
              /\ \A g \in 1..Len(loops) :
                     loops[g].parent = c => loops'[g].parent = loops[c].parent]_vars

\* C19 witness: a pass has skipped a container and moved its children to its parent
ChildrenMovedWitness ==
    /\ pc = "pseudo"
    /\ guard = 1
    /\ \E c \in pseudoHoleSkipSet :
           /\ loops[c].parent = -1
           /\ \E g \in reattachedLoops : loops[g].parent >= 1 /\ loops[g].parent # c


\* the loops above loop i in the hierarchy
RECURSIVE AncestorsOf(_, _)
AncestorsOf(ls, i) ==
    IF ls[i].parent < 1 THEN {} ELSE {ls[i].parent} \cup AncestorsOf(ls, ls[i].parent)

\* loop g is the outer contour of an emitted shape
EmittedAsOuter(g) == \E k \in 1..Len(shapes) : shapes[k].loopIdx = g

\* C20 as stated: when the pseudo-hole loop (at most 8 passes) has ended, every loop that
\* was re-attached from a skipped container to that container's parent has an odd depth
\* in the rebuilt hierarchy and is not emitted as an outer contour, whatever the nesting.
\* (A re-attached loop that a later pass skipped is emitted neither way, and is left out.)
ReattachedLoopsAreHoles ==
    (pc = "filter" /\ ~densePath) =>
        \A g \in reattachedLoops \ pseudoHoleSkipSet :
            loops[g].depth % 2 = 1 /\ ~EmittedAsOuter(g)

\* C20 amended: when the pseudo-hole loop has ended, every re-attached loop that was not
\* skipped itself, and that lies under no other re-attached loop, has an odd depth in
\* the rebuilt hierarchy and is not emitted as an outer contour.  Under a re-attached
\* loop the parity is the one the rebuilt hierarchy gives.
ReattachedLoopsUnderFixedParentsAreHoles ==
    (pc = "filter" /\ ~densePath) =>
        \A g \in reattachedLoops :
            /\ loops[g].depth = Cardinality(AncestorsOf(loops, g))
            /\ (g \notin pseudoHoleSkipSet /\ AncestorsOf(loops, g) \cap reattachedLoops = {})
                   => loops[g].depth % 2 = 1 /\ ~EmittedAsOuter(g)

\* C20 witness: the loop took three passes over a chain of duplicated borders, and a
\* loop that was re-attached is a hole of an emitted shape
ChainFlattenedWitness ==
    /\ pc = "filter"
    /\ ~densePath
    /\ guard >= 3
    /\ Cardinality(pseudoHoleSkipSet) >= 3
    /\ \E g \in reattachedLoops \ pseudoHoleSkipSet :
           /\ loops[g].depth % 2 = 1
           /\ \E k \in 1..Len(shapes) :
                  \E h \in 1..Len(shapes[k].holeIdx) : shapes[k].holeIdx[h] = g


-----------------------------------------------------------------------------
(* Properties of the hierarchy *)

\* the loops j other than i of a larger area whose bounding box contains the sample of
\* loop i and whose closed point list has that sample strictly inside
EnclosingLoops(i) ==
    {j \in 1..Len(loops) :
        /\ j # i
        /\ loops[j].areaAbs > loops[i].areaAbs
        /\ bboxContainsPoint(loops[j].bbox, loops[i].sample, 1, 1000000, unit)
        /\ pointInPolygonStrict(loops[i].sample, loops[j].closedPts, unit)}

\* the hierarchy has just been computed by computeLoopHierarchy
HierarchyComputed == pc = "fragmented" \/ (pc = "pseudo" /\ guard = 0)

\* C21: computeLoopHierarchy gives each loop i, as its parent, a loop of the least area
\* among the loops j # i of a larger area whose bounding box contains the sample of i
\* and that have the sample strictly inside; the parent is -1 exactly when there is no
\* such loop.
ParentIsSmallestEnclosingLoop ==
    HierarchyComputed =>
        \A i \in 1..Len(loops) :
            /\ loops[i].parent = -1 <=> EnclosingLoops(i) = {}
            /\ loops[i].parent # -1 =>
                   /\ loops[i].parent \in EnclosingLoops(i)
                   /\ \A k \in EnclosingLoops(i) :
                          loops[loops[i].parent].areaAbs <= loops[k].areaAbs

\* C21 witness: a loop with several enclosing loops has the smallest of them as parent
SmallestOfSeveralWitness ==
    /\ pc = "fragmented"
    /\ \E i \in 1..Len(loops) :
           /\ Cardinality(EnclosingLoops(i)) >= 3
           /\ loops[i].parent \in EnclosingLoops(i)
           /\ \E k \in EnclosingLoops(i) : loops[loops[i].parent].areaAbs < loops[k].areaAbs


-----------------------------------------------------------------------------
(* Properties of the assembly *)

\* the shapes have just been assembled on the general path
Assembled == pc = "filter" /\ ~densePath

\* the loops emitted as the outer contour of a shape, and as a hole of the shape of i
OuterLoops == {shapes[k].loopIdx : k \in 1..Len(shapes)}

HoleLoopsOf(k) == {shapes[k].holeIdx[h] : h \in 1..Len(shapes[k].holeIdx)}

\* the shapes have one outer each out of `outers', no two the same, each with the
\* non-skipped odd-depth children of its outer as holes, and nothing skipped in them
ShapesAreExactly(outers) ==
    /\ OuterLoops = outers
    /\ Len(shapes) = Cardinality(outers)
    /\ \A k \in 1..Len(shapes) :
           /\ HoleLoopsOf(k) =
                  {c \in 1..Len(loops) : /\ loops[c].parent = shapes[k].loopIdx
                                         /\ loops[c].depth % 2 = 1
                                         /\ c \notin pseudoHoleSkipSet}
           /\ Len(shapes[k].holeIdx) = Cardinality(HoleLoopsOf(k))
           /\ Len(shapes[k].holes) = Len(shapes[k].holeIdx)
           /\ shapes[k].loopIdx \notin pseudoHoleSkipSet
           /\ HoleLoopsOf(k) \cap pseudoHoleSkipSet = {}

\* C22 as stated: on the general path, before the artifact filter, there is exactly one
\* shape for each even-depth loop that is not in the pseudo-hole skip set, its holes are
\* exactly the odd-depth children of the loop that are not in the skip set, and no
\* skipped loop is an outer or a hole.
OneShapePerEvenLoop ==
    Assembled =>
        ShapesAreExactly({i \in 1..Len(loops) :
                             loops[i].depth % 2 = 0 /\ i \notin pseudoHoleSkipSet})

\* C22 amended: the same, for the even-depth loops that are not in the skip set and are
\* not nested islands (shouldSkipNestedIsland): a small island inside a small hole,
\* close to its centre, gets no shape.
OneShapePerKeptEvenLoop ==
    Assembled =>
        ShapesAreExactly({i \in 1..Len(loops) :
                             /\ loops[i].depth % 2 = 0
                             /\ i \notin pseudoHoleSkipSet
                             /\ ~shouldSkipNestedIsland(loops, i, SourceBBox(allPoints), unit)})

\* C22 witness: shapes were assembled, one of them with a hole, and an even-depth loop
\* that is not skipped was left out as a nested island
AssembledWitness ==
    /\ Assembled
    /\ \E k \in 1..Len(shapes) : Len(shapes[k].holes) >= 1
    /\ \E i \in 1..Len(loops) :
           /\ loops[i].depth % 2 = 0
           /\ i \notin pseudoHoleSkipSet
           /\ i \notin OuterLoops


-----------------------------------------------------------------------------
(* Properties of the loop records *)

\* the sample of loop record i is strictly inside the closed polygon of the record
SampleInside(i) == pointInPolygonStrict(loops[i].sample, loops[i].closedPts, unit)

\* one of the candidates of pickSampleInside for record i is strictly inside it
SomeCandidateInside(i) ==
    \E k \in 1..Len(SampleCandidates(loops[i].openPts, unit)) :
        pointInPolygonStrict(SampleCandidates(loops[i].openPts, unit)[k],
                             loops[i].closedPts, unit)

\* C23 as stated: for every loop record created by makeLoopRecord, the interior sample
\* chosen by pickSampleInside is strictly inside the closed polygon of the loop.
SampleStrictlyInside == \A i \in 1..Len(loops) : SampleInside(i)

\* C23 amended: the sample of a loop record is the first of the candidates (centroid,
\* vertex mean, midpoint of the first edge, first vertex) that is strictly inside the
\* closed polygon of the loop; when none of them is, it is the last candidate, the first
\* vertex, which lies on the polygon.
SampleIsFirstCandidateInside ==
    \A i \in 1..Len(loops) :
        LET cands == SampleCandidates(loops[i].openPts, unit)
        IN  IF SomeCandidateInside(i)
            THEN /\ SampleInside(i)
                 /\ \E k \in 1..Len(cands) :
                        /\ loops[i].sample = cands[k]
                        /\ \A m \in 1..(k - 1) :
                               ~pointInPolygonStrict(cands[m], loops[i].closedPts, unit)
            ELSE /\ loops[i].sample = OfVertex(loops[i].openPts[1])
                 /\ ~SampleInside(i)

\* C23 witness: the import has ended with a record of which no candidate is strictly
\* inside, whose sample is its first vertex, beside a record with its sample inside
BoundarySampleWitness ==
    /\ pc = "done"
    /\ \E i \in 1..Len(loops) :
           /\ ~SomeCandidateInside(i)
           /\ loops[i].sample = OfVertex(loops[i].openPts[1])
    /\ \E i \in 1..Len(loops) : SampleInside(i)


-----------------------------------------------------------------------------
(* Properties of the progressive extraction *)

\* the loops of the segment extractor at n/d drawing units, and those of the stitcher
ExtractedAt(n, d) == extractClosedLoopsFromSegments(segments, n, d, unit)

StitchedLoops ==
    IF Len(openContours) > 0
    THEN stitchClosedLoopsFromOpenContours(
             openContours, StitchTol(parsed[1].width, parsed[1].height, unit), unit)
    ELSE <<>>

WasRun(step) == \E k \in 1..Len(extractorRuns) : extractorRuns[k] = step

StitcherRunWitness ==
    /\ pc = "closed"
    /\ extractorRuns = <<"1e-4", "1e-2", "5e-2", "stitch">>
    /\ Len(segmentLoops) >= 1


-----------------------------------------------------------------------------
(* Properties of the loop finders *)

\* the walks of the extractor on the segments, at the tolerance that was used
ExtractorWalks ==
    LET Walks(edges) == WalksFrom(edges, 1, [i \in 1..Len(edges) |-> FALSE])
    IN  Walks(EdgesOf(segments, EpsNum(extractorRuns[1]), EpsDen(extractorRuns[1]), unit))

ExtractorEdges ==
    EdgesOf(segments, EpsNum(extractorRuns[1]), EpsDen(extractorRuns[1]), unit)

KeyOf(p) == pointKey(p, EpsNum(extractorRuns[1]), EpsDen(extractorRuns[1]), unit)

\* the path of walk w is a closed walk over the edges of w: it ends on the key it starts
\* from, every step goes along one of its edges, and no edge serves two steps
ClosedWalk(w) ==
    /\ KeyOf(w.path[1]) = KeyOf(w.path[Len(w.path)])
    /\ Cardinality(w.edges) = Len(w.path) - 1
    /\ \A k \in 1..(Len(w.path) - 1) :
           \E e \in w.edges :
               \/ /\ KeyOf(w.path[k]) = ExtractorEdges[e].aKey
                  /\ w.path[k + 1] = ExtractorEdges[e].b
               \/ /\ KeyOf(w.path[k]) = ExtractorEdges[e].bKey
                  /\ w.path[k + 1] = ExtractorEdges[e].a

\* C25 without the count of points: every loop the extractor emits is a closed walk
\* over its edges, and no segment is used in two loops or twice in one.
LoopsAreClosedWalks ==
    pc = "extracted" =>
        /\ segmentLoops = [k \in 1..Len(ExtractorWalks) |-> ExtractorWalks[k].path]
        /\ \A k \in 1..Len(ExtractorWalks) : ClosedWalk(ExtractorWalks[k])
        /\ \A k \in 1..Len(ExtractorWalks) : \A m \in 1..Len(ExtractorWalks) :
               k # m => ExtractorWalks[k].edges \cap ExtractorWalks[m].edges = {}

\* C25: for any set of segments and any tolerance, every loop emitted by
\* extractClosedLoopsFromSegments is a closed walk with at least 3 points in its open
\* point sequence (the path without its closing point), and no input segment is used in
\* more than one emitted loop or more than once within a loop.
LoopsAreClosedWalksOfThree ==
    /\ LoopsAreClosedWalks
    /\ pc = "extracted" => \A k \in 1..Len(segmentLoops) : Len(segmentLoops[k]) - 1 >= 3


\* the chains of the stitcher on the open contours, at the tolerance that was used
StitcherChains ==
    LET Chains(pool, dedupTol) ==
            ChainsFrom(pool, 1, [i \in 1..Len(pool) |-> FALSE],
                       TolNamed(extractorRuns[1], unit), dedupTol)
        OfPool(dedupTol) == Chains(StitchPool(openContours, dedupTol), dedupTol)
    IN  OfPool(StitchDedupTol(TolNamed(extractorRuns[1], unit), unit))

\* the ends of the chain were within the tolerance when chaining stopped
ChainClosed(c) ==
    /\ Len(c.chain) >= 3
    /\ Within(c.chain[1], c.chain[Len(c.chain)], TolNamed(extractorRuns[1], unit))

\* C27 without the closure of the chains: each open contour is consumed by at most one
\* of the chains the stitcher returns.
ContoursConsumedOnce ==
    pc = "stitched" =>
        /\ segmentLoops = [k \in 1..Len(StitcherChains) |-> StitcherChains[k].loop]
        /\ \A k \in 1..Len(StitcherChains) : \A m \in 1..Len(StitcherChains) :
               k # m => StitcherChains[k].items \cap StitcherChains[m].items = {}

\* C27: every loop returned by stitchClosedLoopsFromOpenContours comes from a chain
\* whose two end points were within tol of each other when chaining stopped; a chain that
\* ran out of joinable contours while its ends are still further apart than tol is never
\* returned as a loop; and each input contour is consumed by at most one chain.
StitchedLoopsAreClosedChains ==
    /\ ContoursConsumedOnce
    /\ pc = "stitched" => \A k \in 1..Len(StitcherChains) : ChainClosed(StitcherChains[k])

\* the stitcher has returned a chain whose ends met
ClosedChainWitness ==
    /\ pc = "stitched"
    /\ \E k \in 1..Len(StitcherChains) :
           ChainClosed(StitcherChains[k]) /\ Cardinality(StitcherChains[k].items) = 2


-----------------------------------------------------------------------------
(* Properties of the depths and the children map *)

\* buildDepthAndChildrenFromParents has been called and nothing has changed a parent since
DepthsBuilt == pc \in {"fragmented", "pseudo", "assemble"}

RECURSIVE ReachesRoot(_, _, _)
\* following the parents from loop i leaves the loops within n steps
ReachesRoot(ls, i, n) ==
    IF ls[i].parent < 0 THEN TRUE
    ELSE IF n = 0 \/ ls[i].parent \notin 1..Len(ls) THEN FALSE
    ELSE ReachesRoot(ls, ls[i].parent, n - 1)

\* the members of a sequence
Members(s) == {s[k] : k \in 1..Len(s)}

\* C26: after every call of buildDepthAndChildrenFromParents (the initial resolution, the
\* fragmented-sheet re-resolution and each pseudo-hole pass) the parent relation has no
\* cycles, every loop with parent -1 has depth 0, every other loop has the depth of its
\* parent plus 1, and childrenByParent maps each index to exactly the loops whose parent
\* is that index.
DepthsFollowParents ==
    DepthsBuilt =>
        /\ \A i \in 1..Len(loops) : ReachesRoot(loops, i, Len(loops))
        /\ \A i \in 1..Len(loops) :
               IF loops[i].parent < 0 THEN loops[i].depth = 0
               ELSE loops[i].depth = loops[loops[i].parent].depth + 1
        /\ \A p \in 1..Len(loops) :
               /\ Members(childrenByParent[p]) = {i \in 1..Len(loops) : loops[i].parent = p}
               /\ Cardinality(Members(childrenByParent[p])) = Len(childrenByParent[p])

\* a pseudo-hole pass has moved loops under a new parent and the depths were rebuilt
DepthsRebuiltWitness ==
    /\ pc \in {"pseudo", "assemble"}
    /\ guard > 0
    /\ \E i \in reattachedLoops : loops[i].parent > 0 /\ loops[i].depth = 1
    /\ \E c \in pseudoHoleSkipSet : loops[c].parent < 0 /\ loops[c].depth = 0


-----------------------------------------------------------------------------
(* Properties of the result of buildShapesFromClosedLoops *)

\* buildShapesFromClosedLoops has returned `shapes'
ShapesBuilt == pc = "finish"

\* the even-depth loops, each a shape unless something removed it
EvenLoops == {i \in 1..Len(loops) : loops[i].depth % 2 = 0}

\* C28: buildShapesFromClosedLoops returns an empty shape set only when no input loop
\* yields a valid loop record; whenever at least one valid loop record exists, at least
\* one shape is returned, whatever the pseudo-hole normalizer, the nested-island skip and
\* the artifact filter remove.
ShapesUnlessNoRecord ==
    ShapesBuilt => (Len(shapes) = 0 <=> Len(loops) = 0)

\* shapes were returned on the general path although an even-depth loop was removed
ShapesDespiteRemovalWitness ==
    /\ ShapesBuilt
    /\ ~densePath
    /\ Len(shapes) > 0
    /\ \E i \in EvenLoops : \A k \in 1..Len(shapes) : shapes[k].loopIdx # i


-----------------------------------------------------------------------------
(* Properties of the worker pool *)

\* no job was posted to a slot while a job posted to it before was unsettled
OneJobPerSlot == \A k \in 1..Len(postLog) : postLog[k].unsettled = {}

\* the jobs were posted in the order of their submission
PostedInSubmissionOrder ==
    \A k \in 1..Len(postLog) : \A m \in 1..Len(postLog) :
        k < m => postLog[k].id < postLog[m].id

\* no promise had resolve or reject called on it twice, and one that had it is settled
SettledAtMostOnce ==
    \A id \in 1..Len(promises) :
        /\ promises[id].calls <= 1
        /\ promises[id].calls = 1 <=> promises[id].state # "pending"

\* C29 without the settling of every job: a slot is never sent a new job while its
\* previous job is unsettled, the jobs are dispatched in submission order, and no
\* promise is settled twice.
PoolKeepsOrder == OneJobPerSlot /\ PostedInSubmissionOrder /\ SettledAtMostOnce

\* every submitted job is settled in the end
EveryJobSettled ==
    \A id \in 1..MaxJobs :
        (Len(promises) >= id) ~> (Len(promises) >= id /\ promises[id].calls = 1)

\* C29: under any interleaving of runParse calls, worker replies, worker errors and
\* terminate(), a slot is never sent a new job while its previous job is unsettled,
\* queued jobs are dispatched in submission order, and every submitted job's promise is
\* settled exactly once, by a reply or an error or by the rejection of terminate().
PoolSettlesEveryJobOnce == []PoolKeepsOrder /\ EveryJobSettled

\* a job waited in the queue and was posted to a slot whose earlier job had settled
QueuedJobPostedWitness ==
    /\ Len(postLog) = MaxJobs
    /\ \E k \in 1..Len(postLog) : \E m \in 1..Len(postLog) :
           k < m /\ postLog[k].slot = postLog[m].slot
    /\ \A id \in 1..Len(promises) : promises[id].calls = 1

\* a job was posted to a Worker that handles no message, and its promise is pending
JobLostWitness ==
    \E k \in 1..Len(postLog) :
        /\ workers[postLog[k].slot].status \in {"failed", "terminated"}
        /\ promises[postLog[k].id].state = "pending"


-----------------------------------------------------------------------------
(* Properties of the cache trims *)

\* the limits of the cache that was trimmed
TrimMaxEntries == IF trimmedBy = "parsed" THEN ParseCacheMaxEntries ELSE MeshCacheMaxEntries

TrimMaxBytes == IF trimmedBy = "parsed" THEN ParseCacheMaxBytes ELSE MeshCacheMaxBytes

\* the records before the trim, the most recently updated first, and the keys kept
SortedBefore == NewestFirst(storeBefore)

KeptKeys == {cacheStore[k].key : k \in 1..Len(cacheStore)}

\* the n most recently updated records are within both limits
Fits(n) ==
    /\ n <= TrimMaxEntries
    /\ SumBytes(SubSeq(SortedBefore, 1, n)) <= TrimMaxBytes

\* the records evicted are the least recently updated ones, and both limits hold after
EvictsOldestUntilWithinLimits ==
    trimmedBy # "none" =>
        /\ \A i \in 1..Len(SortedBefore) : \A j \in 1..Len(SortedBefore) :
               (i < j /\ SortedBefore[i].key \notin KeptKeys)
                   => SortedBefore[j].key \notin KeptKeys
        /\ Len(cacheStore) <= TrimMaxEntries
        /\ SumBytes(cacheStore) <= TrimMaxBytes
        /\ \A k \in 1..Len(cacheStore) : \E i \in 1..Len(storeBefore) :
               cacheStore[k] = storeBefore[i]

\* C30: trimPersistentParsedCache and trimPersistentMeshCache evict entries strictly
\* least-recently-updated first and stop as soon as both limits hold (count at most the
\* maximum of entries, total approxBytes at most the maximum of bytes): after a trim both
\* limits hold, and an entry is never evicted when it and all more recently updated
\* entries already fit within both limits.
EvictsOldestAndNoMore ==
    /\ EvictsOldestUntilWithinLimits
    /\ trimmedBy # "none" =>
           \A n \in 1..Len(SortedBefore) : Fits(n) => SortedBefore[n].key \in KeptKeys

\* a trim evicted for the count and for the bytes, and kept a record
TrimmedBothWaysWitness ==
    /\ trimmedBy # "none"
    /\ Len(storeBefore) > TrimMaxEntries
    /\ Len(cacheStore) < TrimMaxEntries
    /\ Len(cacheStore) > 0
=============================================================================
